---- MODULE Spec2Model ----
(***************************************************************************)
(* Verification model of the map-chat services, hooks and parser:          *)
(*   ThrottleManager  (src/src/lib/services/throttle.ts)                   *)
(*   BatchProcessor   (src/src/lib/services/cluster.ts)                    *)
(*   CacheService     (src/src/lib/services/cache.ts)                      *)
(*   generateKey      (src/src/lib/hooks/useMapCache.ts)                   *)
(*   useMapHistory    (src/unnamed/part_002)                               *)
(*   commandParser    (src/src/lib/commandParser.ts)                       *)
(*   MapService       (src/src/lib/services/map.ts)                        *)
(*   LayerService     (src/src/lib/services/throttle.ts)                   *)
(*   useMapThrottle   (src/src/lib/hooks/useMapThrottle.ts)                *)
(*   useMapPersistence (src/src/lib/hooks/useMapPersistence.ts)            *)
(*   WorkerPool       (src/src/lib/services/worker.ts)                     *)
(*   SpatialService   (src/unnamed/part_005)                               *)
(*   MapComponent     (src/src/components/MapComponent.tsx)                *)
(*   ClusterService   (src/src/lib/services/cluster.ts)                    *)
(*                                                                         *)
(* The runtime is a single-threaded event loop.  A promise continuation    *)
(* (microtask) runs before any timer callback (macrotask); the model keeps *)
(* the continuations that are scheduled but have not run yet as explicit   *)
(* state, and a timer callback fires only when none is pending.            *)
(***************************************************************************)
EXTENDS Integers, Sequences, FiniteSets, TLC

(***************************************************************************)
(* Bounds of the model.                                                    *)
(***************************************************************************)
\* number of ThrottleManager.execute calls in one behaviour
MaxCalls == 4
\* number of ThrottleManager.dispose calls in one behaviour
MaxDispose == 1
\* resolution of the clock: ticks in the 1000 ms window of shouldThrottle
WindowTicks == 2

\* number of BatchProcessor.add calls in one behaviour
MaxItems == 4

\* number of LayerService calls in one behaviour, and the sizes of its store:
\* groups, layers of a group, features of a layer
MaxLayerCalls == 6
MaxGroups == 2
MaxLayers == 2
MaxFeatures == 2

\* number of firings of the auto-save interval in one behaviour
MaxTicks == 4

\* number of direct calls of saveState, loadState and clearState
MaxPersistCalls == 2

\* number of WorkerPool.execute calls in one behaviour
MaxTasks == 3

\* number of features in one call of a SpatialService method
MaxSpatial == 2

\* number of calls of the map methods in one behaviour
MaxMethodCalls == 3

\* number of features in one call of loadFeatures
MaxLoad == 2

\* DEFAULT_OPTIONS.minPoints, radius and extent
MinPoints == 2
Radius == 40
Extent == 512

\* maxHistorySize when the prop is not given
DefaultHistorySize == 50

\* The callers of execute, numbered in the order of their calls.
Callers == 1..MaxCalls

\* The configurations a ThrottleManager is constructed with (times in ticks).
ThrottleConfigs ==
    [maxConcurrent : {1, 2}, maxPerSecond : {2, 3},
     maxBurstSize : {2, 4}, cooldownPeriod : {2}]

\* number of BatchProcessor.dispose calls in one behaviour
MaxBatchDispose == 1

\* The items given to add, numbered in the order of the calls.
Items == 1..MaxItems

\* The configurations a BatchProcessor is constructed with (the delays
\* maxDelay and retryDelay are the firing of the corresponding timeout).
BatchConfigs == [maxSize : {2, 3}, retryAttempts : {1, 2}]

\* The values an element of the array the processor returns can take.
ResultValues == {"r1", "r2"}

\* the last reading of the clock CacheService is observed at
MaxTime == 3

\* The keys and values given to CacheService.set and get.
CacheKeys == {"k1", "k2"}

CacheValues == {"v1", "v2"}

\* The ttl argument of set: 0 stands for a ttl that is omitted or zero.
TtlArgs == {0, 1}

\* The configurations a CacheService is constructed with (times in ticks).
CacheConfigs == [maxSize : {1, 2}, defaultTTL : {2}]

\* the number of properties of a params object given to generateKey
MaxParams == 3

\* The type, the property names and the property values given to generateKey.
KeyTypes == {"f", "g"}

ParamNames == {"a", "b", "c"}

ParamValues == {1, 2}

\* number of calls of pushOperation, undo, redo and clearHistory in one
\* behaviour
MaxHistoryCalls == 5

\* The values of the maxHistorySize prop.
HistorySizes == {1, 2}

\* the largest number of arguments a case of convertToMapCommand reads by
\* position
MaxArgs == 3

\* The command types isValidCommandType lists.
CommandTypes ==
    {"zoom_to", "add_feature", "modify_feature", "remove_feature",
     "style_feature", "measure", "buffer"}

\* The names written after "[" in the texts: the command types and one
\* other word.
DirectiveNames == CommandTypes \cup {"fly_to"}

\* The arguments written in the texts: a number (which is JSON too), a word
\* that is neither a number nor JSON, and a JSON object.
ArgLexemes == {"51.5", "abc", "{\"a\":1}"}

\* The lexemes made of word characters only.
WordLexemes ==
    DirectiveNames \cup {"abc", "see", "12", "distance", "area",
                         "kilometers", "miles", "meters",
                         "Big", "Ben", "is", "in", "London", "15"}

\* The valid arguments written in the directives that are parsed back: the
\* numbers, and the feature JSON: a flat object, one with a coordinates
\* array, and one written with a space.
ValidNumbers == {"51.5", "12"}

ValidJson == {"{\"a\":1}", "{\"c\":[1,2]}", "{\"a\": 1}"}

\* The patterns given to clear: "none" is the call without a pattern, the
\* others are the regular expressions /k/ and /k1/.
ClearPatterns == {"none", "k", "k1"}

VARIABLES
    \* ---- ThrottleManager fields ----
    config,          \* this.config
    active,          \* this.active
    queue,           \* this.queue: the resolvers of the suspended callers, in order
    lastExecutions,  \* this.lastExecutions, each entry kept as now - time (saturated)
    cooldown,        \* this.cooldown
    \* ---- event loop ----
    woken,           \* callers whose resolver was called and whose continuation is pending
    timers,          \* pending cooldown timeouts: remaining ticks, in creation order
    pc,              \* position of each execute call
    \* ---- history (observations; only the bounds of the model read them) ----
    nCalls,          \* execute calls made so far
    nDisposed,       \* dispose calls made so far
    enqOrder,        \* callers in the order waitForCapacity queued them
    startOrder,      \* callers in the order their operation was started
    abandoned        \* callers that were in the queue when dispose ran

VARIABLES
    \* ---- BatchProcessor fields ----
    bconfig,         \* this.config
    batch,           \* this.batch: the buffered items, in order
    timer,           \* this.timer: "null", "armed" (handle of a pending timeout)
                     \* or "stale" (handle of a timeout that has fired)
    processing,      \* this.processing
    \* ---- the processBatch calls that took a batch, in order ----
    flushes,         \* of each: its local items, processWithRetry's
                     \* attempt, its phase, "invoked" (awaiting the
                     \* processor), "retryWait" (awaiting the retry delay)
                     \* or "done", and the processor call it awaits
    status,          \* the promise add returned for each item
    value,           \* the value that promise was resolved with ("none" before)
    \* ---- history ----
    nAdded,          \* add calls made so far
    nBatchDisposed,  \* dispose calls made so far
    invocations,     \* the argument of every call of the processor, in order
    outcomes,        \* how each of these calls ended: "pending", "failed", or
                     \* "ok" with the array returned
    resolveOrder,    \* the items in the order their promises were resolved
    turn             \* the current synchronous turn: whether the processor was
                     \* idle when it began, the items added and the processor
                     \* calls made in it

VARIABLES
    \* ---- CacheService fields ----
    cacheConfig,     \* this.config
    cache,           \* this.cache: the entries in the iteration order of the
                     \* Map, each with its key
    cleanupTimer,    \* this.cleanupTimer: "armed" or "null"
    now,             \* Date.now()
    \* ---- history ----
    lastOp           \* the last call: its name, key, the reading of the clock,
                     \* what it returned, and, where a cleanup pass ran, the
                     \* unexpired entries the pass found and those it kept

VARIABLES
    \* ---- two calls of useMapCache's generateKey ----
    keyType,         \* the type given to both
    paramsA,         \* the entries of the first params object, in its order
    paramsB,         \* the entries of the second, the same in another order
    keyA,            \* what the first call returned ("none" before it)
    keyB             \* what the second call returned ("none" before it)

VARIABLES
    \* ---- useMapHistory ----
    maxHistorySize,  \* the maxHistorySize prop
    undoStack,       \* the undoStack state: its value once the updaters queued
                     \* so far are applied, oldest operation first
    redoStack,       \* the redoStack state, likewise
    undoSeen,        \* the undoStack of the last render, which undo closes over
    redoSeen,        \* the redoStack of the last render, which redo closes over
    \* ---- history ----
    nHistoryCalls,   \* calls made so far; an operation pushed is named by
                     \* the number of its call
    lastCall         \* the last call: its name, the operation pushed, the
                     \* callback invoked and its argument, and both states
                     \* and what the render showed of them before the call

VARIABLES
    \* ---- one call of extractMapCommands ----
    text,            \* the text given: a sequence of lexemes, each a run of
                     \* characters of one class ("[", "]", one space, word
                     \* characters, or other characters)
    directives,      \* the directives the text was written from, in order
    commands,        \* what the call returned (<<>> before it)
    extracted        \* whether the call was made

VARIABLES
    \* ---- one call of MapService.executeMapCommands(text) ----
    calls,           \* the calls made on mapMethods, in order: the index of
                     \* the command, the method, its arguments, whether it
                     \* threw and what it returned
    returned         \* what executeMapCommands returned (<<>> before it)

VARIABLES
    \* ---- one LayerService ----
    mapState,        \* this.state: its layers, an array of groups
    nUuids,          \* the number of calls of uuidv4 made
    nLayerCalls,     \* the number of calls made on the service
    layerCall,       \* the last call: its arguments, the layers it found and
                     \* what it returned
    givenIds         \* the ids under which the features given without an id
                     \* were stored, in the order of the calls

VARIABLES
    \* ---- useMapThrottle.executeOperation, one call per caller ----
    raced,           \* what settled the Promise.race of each call: "pending",
                     \* "operation" (the promise of execute) or "timeout"
    pcAtTimeout      \* where the call's execute was when its timeout fired
                     \* ("none" while it has not)

VARIABLES
    \* ---- useMapPersistence: one setupAutoSave(getState) ----
    currentState,    \* what getState() returns
    lastSavedState,  \* the lastSavedState of the closure of setupAutoSave
    localStorage,    \* the item of STORAGE_KEY ("null" when there is none)
    intervalId,      \* the interval: "armed" or "cleared"
    reported,        \* the calls of onStateError, in order
    nTicks,          \* the number of firings of the interval
    loaded,          \* the calls of onStateLoad, in order
    nPersist,        \* the number of direct calls of saveState, loadState
                     \* and clearState
    lastTick         \* the last firing: the state it read, whether it called
                     \* setItem, whether setItem threw, and whether the
                     \* firing before had failed to store this very state

VARIABLES
    \* ---- one WorkerPool ----
    poolSize,        \* the number of workers; they are numbered from 0
    workerQueue,     \* this.queue: the tasks waiting, in order
    workerActive,    \* this.active: the task of each worker (0 when none)
    promises,        \* the promise execute returned for each task
    terminated,      \* whether terminate() was called
    nTasks,          \* the number of execute calls made
    assignedTo,      \* the worker each task was recorded for in this.active
                     \* (-1 when none)
    taskData,        \* the data of each task: "plain", or "function" for
                     \* data postMessage cannot clone ("none" before execute)
    posted,          \* the postMessage calls made, in order
    lastEvent        \* the last call or event: for a message, its worker and
                     \* taskId, the task the worker had and the promises as
                     \* they were

VARIABLES
    \* ---- one SpatialService ----
    spatialCall      \* the last call: its method, its arguments, what the
                     \* geometry library did and what the method returned

VARIABLES
    \* ---- the map methods of one MapComponent ----
    objects,         \* the properties objects the caller of addFeature
                     \* holds: what each contains
    methodCall       \* the last call of a map method: its arguments, the
                     \* undo stack it found, what the LayerService method
                     \* it called returned and the operation it recorded

VARIABLES
    \* ---- one ClusterService ----
    clusterFeatures, \* this.features
    clusterIndex,    \* this.supercluster: whether it was loaded, the points
                     \* it holds and the feature list they were made from
    clusterCall      \* the last call: its arguments, the features and the
                     \* index it found, and what it returned or that it threw

tvars == <<config, active, queue, lastExecutions, cooldown, woken, timers, pc,
           nCalls, nDisposed, enqOrder, startOrder, abandoned>>

bvars == <<bconfig, batch, timer, processing, flushes, status, value, nAdded,
           nBatchDisposed, invocations, outcomes, resolveOrder, turn>>

cvars == <<cacheConfig, cache, cleanupTimer, now, lastOp>>

kvars == <<keyType, paramsA, paramsB, keyA, keyB>>

hvars == <<maxHistorySize, undoStack, redoStack, undoSeen, redoSeen,
           nHistoryCalls, lastCall>>

pvars == <<text, directives, commands, extracted>>

evars == <<calls, returned>>

lvars == <<mapState, nUuids, nLayerCalls, layerCall, givenIds>>

ovars == <<raced, pcAtTimeout>>

svars == <<currentState, lastSavedState, localStorage, intervalId, reported,
           nTicks, loaded, nPersist, lastTick>>

wvars == <<poolSize, workerQueue, workerActive, promises, terminated, nTasks,
           assignedTo, taskData, posted, lastEvent>>

gvars == <<spatialCall>>

mvars == <<methodCall, objects>>

uvars == <<clusterFeatures, clusterIndex, clusterCall>>

vars == <<tvars, bvars, cvars, kvars, hvars, pvars, evars, lvars, ovars, svars, wvars, gvars, mvars, uvars>>

\* what an action of one service leaves alone
notThrottle == <<bvars, cvars, kvars, hvars, pvars, evars, lvars, ovars, svars, wvars, gvars, mvars, uvars>>

notBatch == <<tvars, cvars, kvars, hvars, pvars, evars, lvars, ovars, svars, wvars, gvars, mvars, uvars>>

notCache == <<tvars, bvars, kvars, hvars, pvars, evars, lvars, ovars, svars, wvars, gvars, mvars, uvars>>

notKey == <<tvars, bvars, cvars, hvars, pvars, evars, lvars, ovars, svars, wvars, gvars, mvars, uvars>>

notHistory == <<tvars, bvars, cvars, kvars, pvars, evars, lvars, ovars, svars, wvars, gvars, mvars, uvars>>

notParser == <<tvars, bvars, cvars, kvars, hvars, evars, lvars, ovars, svars, wvars, gvars, mvars, uvars>>

notExecutor == <<tvars, bvars, cvars, kvars, hvars, lvars, ovars, svars, wvars, gvars, mvars, uvars>>

notLayers == <<tvars, bvars, cvars, kvars, hvars, pvars, evars, ovars, svars, wvars, gvars, mvars, uvars>>

notPersistence == <<tvars, bvars, cvars, kvars, hvars, pvars, evars, lvars, ovars, wvars, gvars, mvars, uvars>>

notPool == <<tvars, bvars, cvars, kvars, hvars, pvars, evars, lvars, ovars, svars, gvars, mvars, uvars>>

notSpatial == <<tvars, bvars, cvars, kvars, hvars, pvars, evars, lvars, ovars, svars, wvars, mvars, uvars>>

notMethods == <<tvars, bvars, cvars, kvars, pvars, evars, ovars, svars, wvars, gvars, uvars>>

notCluster == <<tvars, bvars, cvars, kvars, hvars, pvars, evars, lvars, ovars, svars, wvars, gvars, mvars>>

\* what a step of executeOperation outside the manager leaves alone
notOperation == <<bvars, cvars, kvars, hvars, pvars, evars, lvars, svars, wvars, gvars, mvars, uvars>>

(***************************************************************************)
(* Helpers                                                                 *)
(***************************************************************************)
SeqToSet(s) == {s[i] : i \in 1..Len(s)}

Min(a, b) == IF a < b THEN a ELSE b

Max(a, b) == IF a > b THEN a ELSE b

\* every entry of a sequence of ages one tick older, saturating at cap
AgeAll(s, cap) == [i \in 1..Len(s) |-> Min(s[i] + 1, cap)]

\* every pending timeout one tick closer, saturating at 0 (due)
CountDown(s) == [i \in 1..Len(s) |-> Max(s[i] - 1, 0)]

IndexOf(s, x) == CHOOSE i \in 1..Len(s) : s[i] = x

(***************************************************************************)
(* ThrottleManager                                                         *)
(***************************************************************************)
\* shouldThrottle, lines 88-90: keep the executions of the last 1000 ms
FilterWindow(le) == SelectSeq(le, LAMBDA age : age < WindowTicks)

\* shouldThrottle with the concurrency test off by one (> for >=)
ShouldThrottleOffByOne(act, le, cool) ==
    \/ act > config.maxConcurrent
    \/ Len(le) >= config.maxPerSecond
    \/ cool

\* shouldThrottle, lines 92-96, on the filtered window
ShouldThrottle(act, le, cool) ==
    \/ act >= config.maxConcurrent
    \/ Len(le) >= config.maxPerSecond
    \/ cool

\* processQueue taking the resolvers from the back of the queue (pop for shift)
RECURSIVE DrainQueueLifo(_, _, _, _, _)
DrainQueueLifo(q, le, w, act, cool) ==
    IF q = <<>>
    THEN [queue |-> q, lastExecutions |-> le, woken |-> w]
    ELSE LET f == FilterWindow(le)
         IN  IF act >= config.maxConcurrent \/ Len(f) >= config.maxPerSecond \/ cool
             THEN [queue |-> q, lastExecutions |-> f, woken |-> w]
             ELSE DrainQueueLifo(SubSeq(q, 1, Len(q) - 1), f,
                                 Append(w, q[Len(q)]), act, cool)

\* processQueue, lines 138-141: while the queue is not empty and
\* shouldThrottle() is false, shift the first resolver and call it.  Calling a
\* resolver only schedules the caller's continuation: active and
\* lastExecutions are not touched before that continuation runs.
RECURSIVE DrainQueue(_, _, _, _, _)
DrainQueue(q, le, w, act, cool) ==
    IF q = <<>>
    THEN [queue |-> q, lastExecutions |-> le, woken |-> w]
    ELSE LET f == FilterWindow(le)
         IN  IF ShouldThrottle(act, f, cool)
             THEN [queue |-> q, lastExecutions |-> f, woken |-> w]
             ELSE DrainQueue(Tail(q), f, Append(w, Head(q)), act, cool)

\* processQueue, lines 143-155: start the cooldown when the window holds
\* maxBurstSize executions
BurstReached(le, cool) == Len(le) >= config.maxBurstSize /\ ~cool

\* processQueue as a whole: the state it leaves
ProcessQueue(q, le, w, act, cool, tm) ==
    LET d == DrainQueue(q, le, w, act, cool)
        burst == BurstReached(d.lastExecutions, cool)
    IN  [queue |-> d.queue,
         lastExecutions |-> d.lastExecutions,
         woken |-> d.woken,
         cooldown |-> (cool \/ burst),
         timers |-> IF burst THEN Append(tm, config.cooldownPeriod) ELSE tm]

TInit ==
    /\ config \in ThrottleConfigs
    /\ active = 0
    /\ queue = <<>>
    /\ lastExecutions = <<>>
    /\ cooldown = FALSE
    /\ woken = <<>>
    /\ timers = <<>>
    /\ pc = [c \in Callers |-> "idle"]
    /\ nCalls = 0
    /\ nDisposed = 0
    /\ enqOrder = <<>>
    /\ startOrder = <<>>
    /\ abandoned = {}

\* execute, lines 63-68: the operation starts
StartOperation(c, le) ==
    /\ active' = active + 1
    /\ lastExecutions' = Append(le, 0)
    /\ pc' = [pc EXCEPT ![c] = "running"]
    /\ startOrder' = Append(startOrder, c)

\* execute(operation) up to its first await
Execute ==
    /\ nCalls < MaxCalls
    /\ LET c == nCalls + 1
           f == FilterWindow(lastExecutions)
       IN  /\ nCalls' = c
           /\ IF ShouldThrottle(active, f, cooldown)
              THEN \* waitForCapacity: push the resolver and suspend
                   /\ queue' = Append(queue, c)
                   /\ enqOrder' = Append(enqOrder, c)
                   /\ lastExecutions' = f
                   /\ pc' = [pc EXCEPT ![c] = "queued"]
                   /\ UNCHANGED <<active, startOrder>>
              ELSE /\ StartOperation(c, f)
                   /\ UNCHANGED <<queue, enqOrder>>
    /\ UNCHANGED <<config, cooldown, woken, timers, nDisposed, abandoned>>
    /\ UNCHANGED notThrottle

\* the continuation of a caller whose resolver was called: execute, line 63 on
Resume ==
    /\ woken /= <<>>
    /\ StartOperation(Head(woken), lastExecutions)
    /\ woken' = Tail(woken)
    /\ UNCHANGED <<config, queue, cooldown, timers, nCalls, nDisposed, enqOrder,
                   abandoned>>
    /\ UNCHANGED notThrottle

\* the operation of c settles (resolved or rejected): execute, lines 79-82
Complete(c) ==
    /\ pc[c] = "running"
    /\ LET r == ProcessQueue(queue, lastExecutions, woken, active - 1, cooldown, timers)
       IN  /\ active' = active - 1
           /\ queue' = r.queue
           /\ lastExecutions' = r.lastExecutions
           /\ woken' = r.woken
           /\ cooldown' = r.cooldown
           /\ timers' = r.timers
    /\ pc' = [pc EXCEPT ![c] = "settled"]
    /\ UNCHANGED <<config, nCalls, nDisposed, enqOrder, startOrder, abandoned>>
    /\ UNCHANGED notThrottle

\* the cooldown timeout fires: processQueue, lines 150-154
CooldownTimer ==
    /\ timers /= <<>>
    /\ Head(timers) = 0
    /\ woken = <<>>
    /\ LET r == ProcessQueue(queue, lastExecutions, woken, active, FALSE, Tail(timers))
       IN  /\ queue' = r.queue
           /\ lastExecutions' = r.lastExecutions
           /\ woken' = r.woken
           /\ cooldown' = r.cooldown
           /\ timers' = r.timers
    /\ UNCHANGED <<config, active, pc, nCalls, nDisposed, enqOrder, startOrder,
                   abandoned>>
    /\ UNCHANGED notThrottle

\* dispose that resolves the queued callers instead of dropping them
DisposeReleasing ==
    /\ nDisposed < MaxDispose
    /\ nDisposed' = nDisposed + 1
    /\ abandoned' = abandoned \cup SeqToSet(queue)
    /\ woken' = woken \o queue
    /\ queue' = <<>>
    /\ lastExecutions' = <<>>
    /\ active' = 0
    /\ cooldown' = FALSE
    /\ UNCHANGED <<config, timers, pc, nCalls, enqOrder, startOrder>>
    /\ UNCHANGED notThrottle

\* dispose, lines 199-212
Dispose ==
    /\ nDisposed < MaxDispose
    /\ nDisposed' = nDisposed + 1
    /\ abandoned' = abandoned \cup SeqToSet(queue)
    /\ queue' = <<>>
    /\ lastExecutions' = <<>>
    /\ active' = 0
    /\ cooldown' = FALSE
    /\ UNCHANGED <<config, woken, timers, pc, nCalls, enqOrder, startOrder>>
    /\ UNCHANGED notThrottle

\* the clock advances by one tick
Tick ==
    /\ lastExecutions' = AgeAll(lastExecutions, WindowTicks)
    /\ timers' = CountDown(timers)
    /\ UNCHANGED <<config, active, queue, cooldown, woken, pc, nCalls, nDisposed,
                   enqOrder, startOrder, abandoned>>
    /\ UNCHANGED notThrottle

ThrottleNext ==
    \/ Execute
    \/ Resume
    \/ \E c \in Callers : Complete(c)
    \/ CooldownTimer
    \/ Dispose
    \/ Tick

(***************************************************************************)
(* BatchProcessor                                                          *)
(***************************************************************************)
\* the fields of the processor and its processBatch calls, as one value
BatchState ==
    [batch |-> batch, timer |-> timer, processing |-> processing,
     flushes |-> flushes, invocations |-> invocations, outcomes |-> outcomes]

SetBatchState(s) ==
    /\ batch' = s.batch
    /\ timer' = s.timer
    /\ processing' = s.processing
    /\ flushes' = s.flushes
    /\ invocations' = s.invocations
    /\ outcomes' = s.outcomes

\* The processBatch calls that took a batch: each takes an item at least.
Flushes == 1..MaxItems

\* processWithRetry, line 444: processBatch call f calls the processor with
\* its items
InvokeProcessor(s, f) ==
    [s EXCEPT !.flushes[f].phase = "invoked",
              !.flushes[f].call = Len(s.invocations) + 1,
              !.invocations = Append(@, s.flushes[f].items),
              !.outcomes = Append(@, [state |-> "pending", results |-> <<>>])]

\* the call of the processor that processBatch call f awaits settles
SettleCall(s, f, state, results) ==
    [s EXCEPT !.outcomes[s.flushes[f].call] =
                  [state |-> state, results |-> results]]

\* the arrays the processor can return for n items: one result per item
ResultArrays(n) == [1..n -> ResultValues]

\* processWithRetry with one attempt too many (<= for <)
RetryLeftOffByOne(att) == att <= bconfig.retryAttempts

\* processWithRetry, line 463: another attempt is made
RetryLeft(att) == att < bconfig.retryAttempts

\* processBatch resolving the promises against the array read backwards
ResolveEachReversed(its, results, index, acc) ==
    [value |-> [i \in Items |->
                  IF i \in SeqToSet(its)
                  THEN results[Len(its) + 1 - IndexOf(its, i)]
                  ELSE acc.value[i]],
     status |-> [i \in Items |->
                  IF i \in SeqToSet(its) THEN "resolved" ELSE acc.status[i]],
     order |-> acc.order \o its]

\* processBatch, lines 391-400: items.forEach((item, index) =>
\* item.resolve(results[index])), from index on
RECURSIVE ResolveEach(_, _, _, _)
ResolveEach(its, results, index, acc) ==
    IF index > Len(its)
    THEN acc
    ELSE ResolveEach(its, results, index + 1,
            [value |-> [acc.value EXCEPT ![its[index]] = results[index]],
             status |-> [acc.status EXCEPT ![its[index]] = "resolved"],
             order |-> Append(acc.order, its[index])])

\* processBatch, lines 414-423: items.forEach(item => item.reject(...))
RejectEach(its, st) ==
    [i \in Items |-> IF i \in SeqToSet(its) THEN "rejected" ELSE st[i]]

\* a processBatch call that has taken these items
NewFlush(its) == [items |-> its, attempt |-> 1, phase |-> "invoked", call |-> 0]

\* processBatch that hands over the first buffered item only
ProcessBatchFirstOnly(s) ==
    IF s.processing \/ s.batch = <<>>
    THEN s
    ELSE InvokeProcessor([s EXCEPT !.processing = TRUE,
                                   !.flushes = Append(@, NewFlush(<<Head(s.batch)>>)),
                                   !.batch = Tail(s.batch),
                                   !.timer = "null"],
                         Len(s.flushes) + 1)

\* processBatch without the test of this.processing
ProcessBatchUnguarded(s) ==
    IF s.batch = <<>>
    THEN s
    ELSE InvokeProcessor([s EXCEPT !.processing = TRUE,
                                   !.flushes = Append(@, NewFlush(s.batch)),
                                   !.batch = <<>>,
                                   !.timer = "null"],
                         Len(s.flushes) + 1)

\* processBatch, lines 369-384, up to the await of the processor
ProcessBatch(s) ==
    IF s.processing \/ s.batch = <<>>
    THEN s
    ELSE InvokeProcessor([s EXCEPT !.processing = TRUE,
                                   !.flushes = Append(@, NewFlush(s.batch)),
                                   !.batch = <<>>,
                                   !.timer = "null"],
                         Len(s.flushes) + 1)

\* scheduleProcessing, lines 351-366
ScheduleProcessing(s) ==
    IF Len(s.batch) >= bconfig.maxSize
    THEN ProcessBatch(s)
    ELSE IF s.timer = "null"
         THEN [s EXCEPT !.timer = "armed"]
         ELSE s

\* processBatch, lines 430-433: the finally block of processBatch call f
FinishBatch(s, f) ==
    ScheduleProcessing([s EXCEPT !.processing = FALSE,
                                 !.flushes[f].phase = "done"])

Idle(s) == ~s.processing /\ s.batch = <<>>

\* the processor calls an action made
NewInvocations(s) == SubSeq(s.invocations, Len(invocations) + 1, Len(s.invocations))

\* an action that is not an add ends the synchronous turn
NewTurn(s) == [idle |-> Idle(s), added |-> <<>>, invoked |-> <<>>]

BInit ==
    /\ bconfig \in BatchConfigs
    /\ batch = <<>>
    /\ timer = "null"
    /\ processing = FALSE
    /\ flushes = <<>>
    /\ status = [i \in Items |-> "none"]
    /\ value = [i \in Items |-> "none"]
    /\ nAdded = 0
    /\ nBatchDisposed = 0
    /\ invocations = <<>>
    /\ outcomes = <<>>
    /\ resolveOrder = <<>>
    /\ turn = [idle |-> TRUE, added |-> <<>>, invoked |-> <<>>]

\* add(item), lines 323-349
Add ==
    /\ nAdded < MaxItems
    /\ LET i == nAdded + 1
           s == ScheduleProcessing([BatchState EXCEPT !.batch = Append(@, i)])
       IN  /\ nAdded' = i
           /\ status' = [status EXCEPT ![i] = "pending"]
           /\ SetBatchState(s)
           /\ turn' = [turn EXCEPT !.added = Append(@, i),
                                   !.invoked = @ \o NewInvocations(s)]
    /\ UNCHANGED <<bconfig, value, resolveOrder, nBatchDisposed>>
    /\ UNCHANGED notBatch

\* the maxDelay timeout fires: scheduleProcessing, lines 356-358
DelayTimer ==
    /\ timer = "armed"
    /\ LET s == ProcessBatch([BatchState EXCEPT !.timer = "stale"])
       IN  /\ SetBatchState(s)
           /\ turn' = NewTurn(s)
    /\ UNCHANGED <<bconfig, status, value, resolveOrder, nAdded,
                   nBatchDisposed>>
    /\ UNCHANGED notBatch

\* the processor's promise of processBatch call f resolves: processBatch,
\* lines 384-406 and 430-433
ProcessorResolves(f) ==
    /\ f <= Len(flushes)
    /\ flushes[f].phase = "invoked"
    /\ \E results \in ResultArrays(Len(flushes[f].items)) :
        LET r == ResolveEach(flushes[f].items, results, 1,
                     [value |-> value, status |-> status, order |-> resolveOrder])
            s == FinishBatch(SettleCall(BatchState, f, "ok", results), f)
        IN  /\ value' = r.value
            /\ status' = r.status
            /\ resolveOrder' = r.order
            /\ SetBatchState(s)
            /\ turn' = NewTurn(s)
    /\ UNCHANGED <<bconfig, nAdded, nBatchDisposed>>
    /\ UNCHANGED notBatch

\* the processor's promise of processBatch call f rejects: processWithRetry,
\* lines 454-470, and when no attempt is left processBatch, lines 407-433
ProcessorRejects(f) ==
    /\ f <= Len(flushes)
    /\ flushes[f].phase = "invoked"
    /\ IF RetryLeft(flushes[f].attempt)
       THEN /\ SetBatchState([SettleCall(BatchState, f, "failed", <<>>)
                                 EXCEPT !.flushes[f].phase = "retryWait"])
            /\ turn' = NewTurn(BatchState)
            /\ UNCHANGED status
       ELSE /\ status' = RejectEach(flushes[f].items, status)
            /\ LET s == FinishBatch(SettleCall(BatchState, f, "failed", <<>>), f)
               IN  /\ SetBatchState(s)
                   /\ turn' = NewTurn(s)
    /\ UNCHANGED <<bconfig, value, resolveOrder, nAdded, nBatchDisposed>>
    /\ UNCHANGED notBatch

\* the retry delay of processBatch call f elapses: processWithRetry, lines
\* 465-466, then line 444
RetryTimer(f) ==
    /\ f <= Len(flushes)
    /\ flushes[f].phase = "retryWait"
    /\ LET s == InvokeProcessor([BatchState EXCEPT !.flushes[f].attempt = @ + 1],
                                f)
       IN  /\ SetBatchState(s)
           /\ turn' = NewTurn(s)
    /\ UNCHANGED <<bconfig, status, value, resolveOrder, nAdded,
                   nBatchDisposed>>
    /\ UNCHANGED notBatch

\* dispose(), lines 507-523: the timeout is cleared, the buffer emptied and
\* processing reset; the processBatch calls that await go on
BatchDispose ==
    /\ nBatchDisposed < MaxBatchDispose
    /\ nBatchDisposed' = nBatchDisposed + 1
    /\ LET s == [BatchState EXCEPT !.timer = "null",
                                   !.batch = <<>>,
                                   !.processing = FALSE]
       IN  /\ SetBatchState(s)
           /\ turn' = NewTurn(s)
    /\ UNCHANGED <<bconfig, status, value, resolveOrder, nAdded>>
    /\ UNCHANGED notBatch

BatchNext ==
    \/ Add
    \/ DelayTimer
    \/ \E f \in Flushes : ProcessorResolves(f)
    \/ \E f \in Flushes : ProcessorRejects(f)
    \/ \E f \in Flushes : RetryTimer(f)
    \/ BatchDispose

\* a processor that is never disposed
BatchLiveNext ==
    \/ Add
    \/ DelayTimer
    \/ \E f \in Flushes : ProcessorResolves(f)
    \/ \E f \in Flushes : ProcessorRejects(f)
    \/ \E f \in Flushes : RetryTimer(f)

(***************************************************************************)
(* CacheService                                                            *)
(*                                                                         *)
(* An entry is [key, value, timestamp, ttl, lastAccess]; its hits counter  *)
(* is read by getStats only and is left out.                               *)
(***************************************************************************)
\* isExpired, accepting an entry one tick too long
IsExpiredLate(entry, t) == t - entry.timestamp > entry.ttl + 1

\* isExpired
IsExpired(entry, t) == t - entry.timestamp > entry.ttl

\* this.cache.has(key)
Has(c, k) == \E i \in 1..Len(c) : c[i].key = k

\* this.cache.get(key), for a key the map has
EntryOf(c, k) == c[CHOOSE i \in 1..Len(c) : c[i].key = k]

\* this.cache.delete(key) for every key of K
DeleteKeys(c, K) == SelectSeq(c, LAMBDA e : e.key \notin K)

\* this.cache.set(key, entry): a key the map has keeps its place
Put(c, entry) ==
    IF Has(c, entry.key)
    THEN [i \in 1..Len(c) |-> IF c[i].key = entry.key THEN entry ELSE c[i]]
    ELSE Append(c, entry)

\* an entry inserted in an array sorted by lastAccess, after its equals
InsertByLastAccess(s, e) ==
    LET n == Cardinality({i \in 1..Len(s) : s[i].lastAccess <= e.lastAccess})
    IN  SubSeq(s, 1, n) \o <<e>> \o SubSeq(s, n + 1, Len(s))

\* the entries left in the order of the Map
SortByInsertion(s) == s

\* entries.sort((a, b) => a[1].lastAccess - b[1].lastAccess), a stable sort
RECURSIVE SortByLastAccess(_)
SortByLastAccess(s) ==
    IF s = <<>> THEN <<>>
    ELSE InsertByLastAccess(SortByLastAccess(SubSeq(s, 1, Len(s) - 1)),
                            s[Len(s)])

\* the first loop of cleanup: the entries left once the expired are deleted
Unexpired(c, t) == SelectSeq(c, LAMBDA e : ~IsExpired(e, t))

\* cleanup
Cleanup(c, t) ==
    LET live == Unexpired(c, t)
    IN  IF Len(live) > cacheConfig.maxSize
        THEN LET entries == SortByLastAccess(live)
                 toRemove == Len(live) - cacheConfig.maxSize
             IN  DeleteKeys(live, {entries[i].key : i \in 1..toRemove})
        ELSE live

\* pattern.test(key)
Matches(pattern, k) == pattern = "k" \/ pattern = k

NoOp == [op |-> "none", key |-> "none", at |-> 0, result |-> "none",
         found |-> <<>>, kept |-> <<>>]

\* new CacheService(config)
CInit ==
    /\ cacheConfig \in CacheConfigs
    /\ cache = <<>>
    /\ cleanupTimer = "armed"
    /\ now = 0
    /\ lastOp = NoOp

\* set(key, value, ttl)
CacheSet ==
    /\ \E k \in CacheKeys : \E v \in CacheValues : \E ttl \in TtlArgs :
        LET full == Len(cache) >= cacheConfig.maxSize
            c1 == IF full THEN Cleanup(cache, now) ELSE cache
            entry == [key |-> k, value |-> v, timestamp |-> now,
                      ttl |-> IF ttl # 0 THEN ttl ELSE cacheConfig.defaultTTL,
                      lastAccess |-> now]
        IN  /\ cache' = Put(c1, entry)
            /\ lastOp' = [op |-> "set", key |-> k, at |-> now,
                          result |-> "none",
                          found |-> IF full THEN Unexpired(cache, now) ELSE <<>>,
                          kept |-> IF full THEN c1 ELSE <<>>]
    /\ UNCHANGED <<cacheConfig, cleanupTimer, now>>
    /\ UNCHANGED notCache

\* get(key)
CacheGet ==
    /\ \E k \in CacheKeys :
        IF ~Has(cache, k) \/ IsExpired(EntryOf(cache, k), now)
        THEN /\ cache' = DeleteKeys(cache, {k})
             /\ lastOp' = [op |-> "get", key |-> k, at |-> now,
                           result |-> "null",
                           found |-> IF Has(cache, k)
                                     THEN <<EntryOf(cache, k)>> ELSE <<>>,
                           kept |-> <<>>]
        ELSE /\ cache' = Put(cache, [EntryOf(cache, k) EXCEPT !.lastAccess = now])
             /\ lastOp' = [op |-> "get", key |-> k, at |-> now,
                           result |-> EntryOf(cache, k).value,
                           found |-> <<EntryOf(cache, k)>>, kept |-> <<>>]
    /\ UNCHANGED <<cacheConfig, cleanupTimer, now>>
    /\ UNCHANGED notCache

\* clear(pattern)
CacheClear ==
    /\ \E pattern \in ClearPatterns :
        /\ cache' = IF pattern # "none"
                    THEN DeleteKeys(cache, {k \in CacheKeys : Matches(pattern, k)})
                    ELSE <<>>
        /\ lastOp' = [NoOp EXCEPT !.op = "clear", !.key = pattern, !.at = now]
    /\ UNCHANGED <<cacheConfig, cleanupTimer, now>>
    /\ UNCHANGED notCache

\* the callback of the interval startCleanup set
CacheCleanupTimer ==
    /\ cleanupTimer = "armed"
    /\ cache' = Cleanup(cache, now)
    /\ lastOp' = [NoOp EXCEPT !.op = "cleanup", !.at = now,
                              !.found = Unexpired(cache, now),
                              !.kept = Cleanup(cache, now)]
    /\ UNCHANGED <<cacheConfig, cleanupTimer, now>>
    /\ UNCHANGED notCache

\* dispose()
CacheDispose ==
    /\ cleanupTimer' = "null"
    /\ cache' = <<>>
    /\ lastOp' = [NoOp EXCEPT !.op = "dispose", !.at = now]
    /\ UNCHANGED <<cacheConfig, now>>
    /\ UNCHANGED notCache

\* the clock advances
CacheTick ==
    /\ now < MaxTime
    /\ now' = now + 1
    /\ UNCHANGED <<cacheConfig, cache, cleanupTimer, lastOp>>
    /\ UNCHANGED notCache

CacheNext ==
    \/ CacheSet
    \/ CacheGet
    \/ CacheClear
    \/ CacheCleanupTimer
    \/ CacheDispose
    \/ CacheTick

(***************************************************************************)
(* useMapCache.generateKey                                                 *)
(***************************************************************************)
\* the entries of the objects with at most MaxParams properties: every
\* sequence of [name, value] without a repeated name
ParamEntries ==
    UNION {{e \in [1..n -> [name : ParamNames, value : ParamValues]] :
              \A i \in 1..n : \A j \in 1..n : e[i].name = e[j].name => i = j}
           : n \in 0..MaxParams}

\* the same properties in every order
Reorderings(e) ==
    {r \in [1..Len(e) -> SeqToSet(e)] : SeqToSet(r) = SeqToSet(e)}

\* a.localeCompare(b) on the names used: negative, zero or positive
LocaleCompare(a, b) ==
    LET rank == [n \in ParamNames |-> CASE n = "a" -> 1 [] n = "b" -> 2
                                         [] n = "c" -> 3]
    IN  rank[a] - rank[b]

\* an entry inserted in an array sorted by name, after its equals
InsertByName(s, e) ==
    LET n == Cardinality({i \in 1..Len(s) : LocaleCompare(s[i].name, e.name) <= 0})
    IN  SubSeq(s, 1, n) \o <<e>> \o SubSeq(s, n + 1, Len(s))

\* the entries left in the order of the object
EntriesUnsorted(e) == e

\* Object.entries(params).sort(([a], [b]) => a.localeCompare(b))
RECURSIVE SortEntries(_)
SortEntries(e) ==
    IF e = <<>> THEN <<>>
    ELSE InsertByName(SortEntries(SubSeq(e, 1, Len(e) - 1)), e[Len(e)])

\* JSON.stringify(value) of a number
Stringify(v) == ToString(v)

\* .map(([key, value]) => `${key}:${JSON.stringify(value)}`).join(',')
RECURSIVE JoinEntries(_)
JoinEntries(e) ==
    IF e = <<>> THEN ""
    ELSE IF Len(e) = 1 THEN e[1].name \o ":" \o Stringify(e[1].value)
    ELSE e[1].name \o ":" \o Stringify(e[1].value) \o "," \o JoinEntries(Tail(e))

\* generateKey(type, params)
GenerateKey(type, e) == type \o "(" \o JoinEntries(SortEntries(e)) \o ")"

KInit ==
    /\ keyType \in KeyTypes
    /\ paramsA \in ParamEntries
    /\ paramsB \in Reorderings(paramsA)
    /\ keyA = "none"
    /\ keyB = "none"

\* generateKey(keyType, the first object)
GenerateKeyA ==
    /\ keyA = "none"
    /\ keyA' = GenerateKey(keyType, paramsA)
    /\ UNCHANGED <<keyType, paramsA, paramsB, keyB>>
    /\ UNCHANGED notKey

\* generateKey(keyType, the second object)
GenerateKeyB ==
    /\ keyB = "none"
    /\ keyB' = GenerateKey(keyType, paramsB)
    /\ UNCHANGED <<keyType, paramsA, paramsB, keyA>>
    /\ UNCHANGED notKey

KeyNext ==
    \/ GenerateKeyA
    \/ GenerateKeyB

(***************************************************************************)
(* useMapHistory                                                           *)
(*                                                                         *)
(* A state setter queues its update; the updates of one state are applied  *)
(* in order before the next render, so the state variables hold the value  *)
(* the updates queued so far produce.  undo and redo read the stack of the *)
(* render that created them.                                               *)
(***************************************************************************)
\* prev.slice(0, -1)
Front(s) == SubSeq(s, 1, Len(s) - 1)

\* the updater pushOperation gives to setUndoStack
PushUpdater(prev, operation) ==
    LET newStack == Append(prev, operation)
    IN  IF Len(newStack) > maxHistorySize THEN Tail(newStack) ELSE newStack

\* the redo stack left as it was
RedoKept(prev) == prev

\* setRedoStack([]) in pushOperation
RedoCleared(prev) == <<>>

NoCall == [fn |-> "none", operation |-> 0, callback |-> "none", arg |-> 0,
           undoBefore |-> <<>>, redoBefore |-> <<>>,
           undoShown |-> <<>>, redoShown |-> <<>>]

\* what a call starts from
CallOf(fn) == [NoCall EXCEPT !.fn = fn, !.undoBefore = undoStack,
                             !.redoBefore = redoStack,
                             !.undoShown = undoSeen, !.redoShown = redoSeen]

\* useMapHistory(props), first render
HInit ==
    /\ maxHistorySize \in HistorySizes
    /\ undoStack = <<>>
    /\ redoStack = <<>>
    /\ undoSeen = <<>>
    /\ redoSeen = <<>>
    /\ nHistoryCalls = 0
    /\ lastCall = NoCall

\* pushOperation(operation), through recordCreate, recordModify,
\* recordDelete, recordStyle or recordMove
PushOperation ==
    /\ nHistoryCalls < MaxHistoryCalls
    /\ nHistoryCalls' = nHistoryCalls + 1
    /\ undoStack' = PushUpdater(undoStack, nHistoryCalls + 1)
    /\ redoStack' = RedoCleared(redoStack)
    /\ lastCall' = [CallOf("push") EXCEPT !.operation = nHistoryCalls + 1]
    /\ UNCHANGED <<maxHistorySize, undoSeen, redoSeen>>
    /\ UNCHANGED notHistory

\* undo(), lines 53-65
UndoStep ==
    /\ nHistoryCalls' = nHistoryCalls + 1
    /\ IF Len(undoSeen) = 0
       THEN /\ lastCall' = CallOf("undo")
            /\ UNCHANGED <<undoStack, redoStack>>
       ELSE LET operation == undoSeen[Len(undoSeen)]
            IN  /\ undoStack' = Front(undoStack)
                /\ redoStack' = Append(redoStack, operation)
                /\ lastCall' = [CallOf("undo") EXCEPT !.callback = "onUndo",
                                                      !.arg = operation]
    /\ UNCHANGED <<maxHistorySize, undoSeen, redoSeen>>

Undo ==
    /\ nHistoryCalls < MaxHistoryCalls
    /\ UndoStep
    /\ UNCHANGED notHistory

\* redo(), lines 67-79
RedoStep ==
    /\ nHistoryCalls' = nHistoryCalls + 1
    /\ IF Len(redoSeen) = 0
       THEN /\ lastCall' = CallOf("redo")
            /\ UNCHANGED <<undoStack, redoStack>>
       ELSE LET operation == redoSeen[Len(redoSeen)]
            IN  /\ redoStack' = Front(redoStack)
                /\ undoStack' = Append(undoStack, operation)
                /\ lastCall' = [CallOf("redo") EXCEPT !.callback = "onRedo",
                                                      !.arg = operation]
    /\ UNCHANGED <<maxHistorySize, undoSeen, redoSeen>>

Redo ==
    /\ nHistoryCalls < MaxHistoryCalls
    /\ RedoStep
    /\ UNCHANGED notHistory

\* clearHistory()
ClearHistory ==
    /\ nHistoryCalls < MaxHistoryCalls
    /\ nHistoryCalls' = nHistoryCalls + 1
    /\ undoStack' = <<>>
    /\ redoStack' = <<>>
    /\ lastCall' = CallOf("clear")
    /\ UNCHANGED <<maxHistorySize, undoSeen, redoSeen>>
    /\ UNCHANGED notHistory

\* the hook renders again: undo and redo are created anew over the state
Render ==
    /\ <<undoSeen, redoSeen>> # <<undoStack, redoStack>>
    /\ undoSeen' = undoStack
    /\ redoSeen' = redoStack
    /\ UNCHANGED <<maxHistorySize, undoStack, redoStack, nHistoryCalls,
                   lastCall>>
    /\ UNCHANGED notHistory

HistoryNext ==
    \/ PushOperation
    \/ Undo
    \/ Redo
    \/ ClearHistory
    \/ Render

(***************************************************************************)
(* commandParser                                                           *)
(*                                                                         *)
(* A command is [type, parameters], the parameters in the order the code   *)
(* writes them; convertToMapCommand's null is the command of type "null".  *)
(* A missing argument is "undefined".                                      *)
(***************************************************************************)
RECURSIVE Concat(_)
Concat(s) == IF s = <<>> THEN "" ELSE s[1] \o Concat(Tail(s))

\* the last index of the run of lexemes of class C that starts at i
\* (i - 1 when there is none)
RECURSIVE RunEnd(_, _, _)
RunEnd(t, i, C) ==
    IF i <= Len(t) /\ t[i] \in C THEN RunEnd(t, i + 1, C) ELSE i - 1

\* the index of the first "]" at or after i (0 when there is none)
RECURSIVE NextClose(_, _)
NextClose(t, i) ==
    IF i > Len(t) THEN 0
    ELSE IF t[i] = "]" THEN i ELSE NextClose(t, i + 1)

NoMatch == [found |-> FALSE, type |-> "", argsStr |-> <<>>, hasArgs |-> FALSE,
            end |-> 0]

\* COMMAND_REGEX tried at index i: "[", word characters, then either "]" or
\* white space, characters other than "]", and "]"
MatchAt(t, i) ==
    IF ~(t[i] = "[" /\ i < Len(t) /\ t[i + 1] \in WordLexemes) THEN NoMatch
    ELSE LET j == RunEnd(t, i + 1, WordLexemes)
             type == Concat(SubSeq(t, i + 1, j))
         IN  IF j = Len(t) THEN NoMatch
             ELSE IF t[j + 1] = "]"
             THEN [NoMatch EXCEPT !.found = TRUE, !.type = type, !.end = j + 1]
             ELSE IF t[j + 1] # " " THEN NoMatch
             ELSE LET sp == RunEnd(t, j + 1, {" "})
                      k == NextClose(t, j + 1)
                  IN  IF k = 0 THEN NoMatch
                      ELSE IF sp + 1 < k
                      THEN [found |-> TRUE, type |-> type, hasArgs |-> TRUE,
                            argsStr |-> SubSeq(t, sp + 1, k - 1), end |-> k]
                      ELSE IF sp - j >= 2
                      THEN [found |-> TRUE, type |-> type, hasArgs |-> TRUE,
                            argsStr |-> <<" ">>, end |-> k]
                      ELSE NoMatch

\* argsStr.split(' ').map(arg => arg.trim()); no lexeme but the space holds
\* white space, so trim leaves every piece as it is
RECURSIVE SplitSpaces(_, _, _)
SplitSpaces(s, piece, acc) ==
    IF s = <<>> THEN Append(acc, piece)
    ELSE IF s[1] = " " THEN SplitSpaces(Tail(s), "", Append(acc, piece))
    ELSE SplitSpaces(Tail(s), piece \o s[1], acc)

\* isValidCommandType
IsValidCommandType(type) == type \in CommandTypes

\* parseMapCommands: the loop over COMMAND_REGEX.exec(text), from index i
RECURSIVE ParseFrom(_, _, _)
ParseFrom(t, i, acc) ==
    IF i > Len(t) THEN acc
    ELSE LET m == MatchAt(t, i)
         IN  IF ~m.found THEN ParseFrom(t, i + 1, acc)
             ELSE LET args == IF m.hasArgs
                              THEN SplitSpaces(m.argsStr, "", <<>>) ELSE <<>>
                  IN  ParseFrom(t, m.end + 1,
                          IF IsValidCommandType(m.type)
                          THEN Append(acc, [type |-> m.type, args |-> args])
                          ELSE acc)

ParseMapCommands(t) == ParseFrom(t, 1, <<>>)

\* parsed.args[n - 1]
Arg(args, n) == IF n <= Len(args) THEN args[n] ELSE "undefined"

\* parseFloat(s), as the decimal it returns: the number written by the
\* longest prefix of s that is a decimal literal, NaN when there is none.
\* The pieces of the texts that begin with a digit or a sign are listed.
ParseFloat(s) ==
    CASE s = "51.5" -> "51.5"
      [] s = "12" -> "12"
      [] s = "51.5007" -> "51.5007"
      [] s = "-0.1246" -> "-0.1246"
      [] s = "15" -> "15"
      [] s = "1}" -> "1"
      [] s = "1,2" -> "1"
      [] OTHER -> "NaN"

\* parseInt(s): the integer written by the longest prefix of s that is a
\* sign and digits, NaN when there is none
ParseInt(s) ==
    CASE s = "51.5" -> "51"
      [] s = "12" -> "12"
      [] s = "51.5007" -> "51"
      [] s = "-0.1246" -> "-0"
      [] s = "15" -> "15"
      [] s = "1}" -> "1"
      [] s = "1,2" -> "1"
      [] OTHER -> "NaN"

\* JSON.parse(s): the value, or "throws"
JsonParse(s) ==
    CASE s = "{\"a\":1}" -> "object a:1"
      [] s = "51.5" -> "number 51.5"
      [] s = "{\"c\":[1,2]}" -> "object c:[1,2]"
      [] s = "{\"a\": 1}" -> "object a:1"
      [] OTHER -> "throws"

NullCommand == [type |-> "null", parameters |-> <<>>]

\* the command, or null when a JSON.parse threw into the catch
Caught(type, parameters) ==
    IF \E n \in 1..Len(parameters) : parameters[n] = "throws"
    THEN NullCommand
    ELSE [type |-> type, parameters |-> parameters]

\* convertToMapCommand
ConvertToMapCommand(parsed) ==
    LET a == parsed.args
    IN  CASE parsed.type = "zoom_to" ->
               Caught("zoom_to",
                      <<ParseFloat(Arg(a, 1)), ParseFloat(Arg(a, 2)),
                        IF Arg(a, 3) \notin {"undefined", ""}
                        THEN ParseInt(Arg(a, 3)) ELSE "undefined">>)
          [] parsed.type = "add_feature" ->
               Caught("add_feature", <<JsonParse(Arg(a, 1)), Arg(a, 2)>>)
          [] parsed.type = "modify_feature" ->
               Caught("modify_feature", <<Arg(a, 1), JsonParse(Arg(a, 2))>>)
          [] parsed.type = "remove_feature" ->
               Caught("remove_feature", <<Arg(a, 1), Arg(a, 2)>>)
          [] parsed.type = "style_feature" ->
               Caught("style_feature", <<Arg(a, 1), JsonParse(Arg(a, 2))>>)
          [] parsed.type = "measure" ->
               Caught("measure",
                      <<Arg(a, 1)>> \o [n \in 1..(Len(a) - 1) |-> JsonParse(a[n + 1])])
          [] parsed.type = "buffer" ->
               Caught("buffer",
                      <<JsonParse(Arg(a, 1)), ParseFloat(Arg(a, 2)), Arg(a, 3)>>)
          [] OTHER -> NullCommand

\* extractMapCommands returning the last directive's command first
ExtractNewestFirst(t) ==
    LET parsedCommands == ParseMapCommands(t)
        converted == [n \in 1..Len(parsedCommands) |->
                         ConvertToMapCommand(
                             parsedCommands[Len(parsedCommands) + 1 - n])]
    IN  SelectSeq(converted, LAMBDA cmd : cmd # NullCommand)

\* extractMapCommands
ExtractMapCommands(t) ==
    LET parsedCommands == ParseMapCommands(t)
        converted == [n \in 1..Len(parsedCommands) |->
                         ConvertToMapCommand(parsedCommands[n])]
    IN  SelectSeq(converted, LAMBDA cmd : cmd # NullCommand)

\* The directives written in the texts: a name and up to MaxArgs arguments.
Directives ==
    [name : DirectiveNames,
     args : UNION {[1..n -> ArgLexemes] : n \in 0..MaxArgs}]

\* a directive in the inline syntax: "[", the name, each argument after one
\* space, "]"
\* the lexemes an argument is made of
Lexemes(arg) ==
    CASE arg = "{\"c\":[1,2]}" -> <<"{\"c\":", "[", "1,2", "]", "}">>
      [] arg = "{\"a\": 1}" -> <<"{\"a\":", " ", "1}">>
      [] OTHER -> <<arg>>

RECURSIVE SpacedArgs(_)
SpacedArgs(args) ==
    IF args = <<>> THEN <<>>
    ELSE <<" ">> \o Lexemes(args[1]) \o SpacedArgs(Tail(args))

Written(d) == <<"[", d.name>> \o SpacedArgs(d.args) \o <<"]">>

\* What stands between two directives: a space, prose with a bracketed span
\* that is no directive, or a directive of a name that is no command type.
Between ==
    {<<" ">>,
     <<" ", "see", " ", "[", "51.5", "]", " ">>,
     <<" ", "[", "fly_to", " ", "abc", "]", " ">>}

\* extractMapCommands is given a text of two directives
PInit ==
    /\ directives \in [1..2 -> Directives]
    /\ \E b \in Between :
         text = Written(directives[1]) \o b \o Written(directives[2])
    /\ commands = <<>>
    /\ extracted = FALSE

\* extractMapCommands(text)
Extract ==
    /\ ~extracted
    /\ extracted' = TRUE
    /\ commands' = ExtractMapCommands(text)
    /\ UNCHANGED <<text, directives>>
    /\ UNCHANGED notParser

ParserNext == Extract

\* The directives of the documented inline syntax with valid arguments.
ValidDirectives ==
    LET D(name, args) == {[name |-> name, args |-> a] : a \in args}
    IN  D("zoom_to", {<<lat, lon>> : lat \in ValidNumbers, lon \in ValidNumbers}
                     \cup {<<lat, lon, "12">> :
                              lat \in ValidNumbers, lon \in ValidNumbers})
        \cup D("add_feature", {<<f>> : f \in ValidJson}
                              \cup {<<f, "abc">> : f \in ValidJson})
        \cup D("modify_feature", {<<"abc", f>> : f \in ValidJson})
        \cup D("remove_feature", {<<"abc">>, <<"abc", "abc">>})
        \cup D("style_feature", {<<"abc", f>> : f \in ValidJson})
        \cup D("measure", {<<t, f>> : t \in {"distance", "area"}, f \in ValidJson}
                          \cup {<<t, f, g>> : t \in {"distance", "area"},
                                              f \in ValidJson, g \in ValidJson})
        \cup D("buffer", {<<f, n, u>> : f \in ValidJson, n \in ValidNumbers,
                                       u \in {"kilometers", "miles", "meters"}})

\* extractMapCommands is given one valid directive, alone or after prose
RInit ==
    /\ directives \in [1..1 -> ValidDirectives]
    /\ \E prose \in {<<>>, <<"see", " ">>} :
         text = prose \o Written(directives[1])
    /\ commands = <<>>
    /\ extracted = FALSE

(***************************************************************************)
(* MapService                                                              *)
(*                                                                         *)
(* mapMethods is the caller's: each of its methods may return or throw,    *)
(* and buffer returns a feature of its choosing.                           *)
(***************************************************************************)
\* What mapMethods does for one command: whether the first method called
\* and the second (addFeature after buffer) return or throw, and the value
\* buffer returns.
Stubs ==
    [first : {"returns", "throws"}, second : {"returns", "throws"},
     value : {"buffered1", "buffered2"}]

\* a switch that calls addFeature for zoom_to
MethodOfSwapped(type) ==
    CASE type = "zoom_to" -> "addFeature"
      [] type = "add_feature" -> "zoomTo"
      [] type = "modify_feature" -> "modifyFeature"
      [] type = "remove_feature" -> "removeFeature"
      [] type = "style_feature" -> "styleFeature"
      [] type = "measure" -> "measure"
      [] type = "buffer" -> "buffer"

\* the method the switch calls first for a command type
MethodOf(type) ==
    CASE type = "zoom_to" -> "zoomTo"
      [] type = "add_feature" -> "addFeature"
      [] type = "modify_feature" -> "modifyFeature"
      [] type = "remove_feature" -> "removeFeature"
      [] type = "style_feature" -> "styleFeature"
      [] type = "measure" -> "measure"
      [] type = "buffer" -> "buffer"

\* the arguments the switch passes: command.parameters.style is never set
ArgsOf(command) ==
    IF command.type = "add_feature"
    THEN Append(command.parameters, "undefined")
    ELSE command.parameters

Call(k, method, args, outcome, result) ==
    [command |-> k, method |-> method, args |-> args,
     threw |-> outcome = "throws",
     value |-> IF outcome = "throws" THEN "undefined" ELSE result]

\* the body of the try for a buffer command that adds the feature it was
\* given
RunCommandUnchained(command, stub, k) ==
    LET first == Call(k, MethodOf(command.type), ArgsOf(command), stub.first,
                      IF command.type = "buffer" THEN stub.value
                      ELSE "undefined")
    IN  IF command.type = "buffer" /\ stub.first = "returns"
        THEN <<first, Call(k, "addFeature", <<command.parameters[1], "buffers">>,
                           stub.second, "undefined")>>
        ELSE <<first>>

\* the body of the try for one command: the calls it makes
RunCommand(command, stub, k) ==
    LET first == Call(k, MethodOf(command.type), ArgsOf(command), stub.first,
                      IF command.type = "buffer" THEN stub.value
                      ELSE "undefined")
    IN  IF command.type = "buffer" /\ stub.first = "returns"
        THEN <<first, Call(k, "addFeature", <<stub.value, "buffers">>,
                           stub.second, "undefined")>>
        ELSE <<first>>

\* a forEach that a throw ends
RECURSIVE RunAllAborting(_, _, _, _)
RunAllAborting(cmds, stubs, k, acc) ==
    IF k > Len(cmds) THEN acc
    ELSE LET made == RunCommand(cmds[k], stubs[k], k)
         IN  IF made[Len(made)].threw THEN acc \o made
             ELSE RunAllAborting(cmds, stubs, k + 1, acc \o made)

\* commands.forEach(command => { try { ... } catch { ... } }), from command k
RECURSIVE RunAll(_, _, _, _)
RunAll(cmds, stubs, k, acc) ==
    IF k > Len(cmds) THEN acc
    ELSE RunAll(cmds, stubs, k + 1, acc \o RunCommand(cmds[k], stubs[k], k))

\* the text of the end-to-end scenario
BigBenText ==
    <<"Big", " ", "Ben", " ", "is", " ", "in", " ", "London", " ",
      "[", "zoom_to", " ", "51.5007", " ", "-0.1246", " ", "15", "]">>

\* executeMapCommands is given two valid directives, or the scenario's text
EInit ==
    /\ \/ /\ directives \in [1..2 -> ValidDirectives]
          /\ text = Written(directives[1]) \o <<" ">> \o Written(directives[2])
       \/ /\ directives = <<[name |-> "zoom_to",
                             args |-> <<"51.5007", "-0.1246", "15">>]>>
          /\ text = BigBenText
    /\ commands = <<>>
    /\ extracted = FALSE
    /\ calls = <<>>
    /\ returned = <<>>

\* executeMapCommands(text)
ExecuteMapCommands ==
    /\ ~extracted
    /\ extracted' = TRUE
    /\ LET cmds == ExtractMapCommands(text)
       IN  /\ commands' = cmds
           /\ \E stubs \in [1..Len(cmds) -> Stubs] :
                calls' = RunAll(cmds, stubs, 1, <<>>)
    /\ returned' = text
    /\ UNCHANGED <<text, directives>>
    /\ UNCHANGED notExecutor

ExecutorNext == ExecuteMapCommands

(***************************************************************************)
(* LayerService                                                            *)
(*                                                                         *)
(* state.layers is an array of groups, a group holds an array of layers    *)
(* and a layer an array of features.  uuidv4 returns an identifier it has  *)
(* not returned before.  A feature is its id and its properties, an object *)
(* written as the set of its <<key, value>> pairs; its geometry is carried *)
(* along unread.                                                           *)
(***************************************************************************)
\* the identifier the n-th call of uuidv4 returns
Uuid(n) == "uuid-" \o ToString(n)

\* !value for the values an id takes: absent or the empty string
IsFalsy(v) == v \in {"undefined", ""}

\* properties: null of a GeoJSON feature
NullProperties == {<<"null">>}

\* ensureFeatureProperties(properties)
EnsureFeatureProperties(properties) ==
    IF properties = NullProperties THEN {} ELSE properties

\* toGeoJSONFeature(feature)
ToGeoJSONFeature(feature) ==
    [id |-> feature.id,
     properties |-> EnsureFeatureProperties(feature.properties)]

\* { ...a, ...b }
Spread(a, b) == {p \in a : \A q \in b : q[1] # p[1]} \cup b

\* array.findIndex(e => e.id === id), from 1, and 0 for -1; array.find
\* returns the element at this index
FindIndexById(array, id) ==
    LET hits == {i \in 1..Len(array) : array[i].id = id}
    IN  IF hits = {} THEN 0 ELSE CHOOSE i \in hits : \A j \in hits : i <= j

\* for (const group of this.state.layers) { layer = group.layers.find(...);
\* if (layer) ... }: the first group that has a layer of this id, 0 when the
\* loop ends without a return
GroupOfLayer(groups, layerId) ==
    LET hits == {g \in 1..Len(groups) :
                    FindIndexById(groups[g].layers, layerId) # 0}
    IN  IF hits = {} THEN 0 ELSE CHOOSE g \in hits : \A h \in hits : g <= h

\* the same loop with the test of the feature inside: the first group whose
\* layer of this id (the first of the group) has a feature of this id
GroupOfFeature(groups, layerId, featureId) ==
    LET hits == {g \in 1..Len(groups) :
                    LET l == FindIndexById(groups[g].layers, layerId)
                    IN  /\ l # 0
                        /\ FindIndexById(groups[g].layers[l].features,
                                         featureId) # 0}
    IN  IF hits = {} THEN 0 ELSE CHOOSE g \in hits : \A h \in hits : g <= h

\* the groups with the layer of this id of group g replaced
WithLayer(groups, g, layerId, layer) ==
    [groups EXCEPT ![g].layers[FindIndexById(groups[g].layers, layerId)] = layer]

\* array.splice(index, 1)
Splice(array, index) ==
    [i \in 1..(Len(array) - 1) |-> IF i < index THEN array[i] ELSE array[i + 1]]

\* createLayerGroup(name): the groups it leaves and what it returns (the id
\* of the group made), after n calls of uuidv4
CreateLayerGroupOn(groups, n) ==
    [layers |-> Append(groups, [id |-> Uuid(n + 1), layers |-> <<>>,
                                visible |-> TRUE]),
     result |-> Uuid(n + 1), uuids |-> n + 1]

\* createLayer(groupId, name, type)
CreateLayerOn(groups, groupId, n) ==
    LET g == FindIndexById(groups, groupId)
    IN  IF g = 0
        THEN [layers |-> groups, result |-> "null", uuids |-> n]
        ELSE [layers |-> [groups EXCEPT ![g].layers =
                            Append(@, [id |-> Uuid(n + 1), visible |-> TRUE,
                                       style |-> "undefined",
                                       features |-> <<>>])],
              result |-> Uuid(n + 1), uuids |-> n + 1]

\* the feature pushed as it was given
StoredAsGiven(feature, n) == ToGeoJSONFeature(feature)

\* the feature addFeatureToLayer pushes, after n calls of uuidv4
Stored(feature, n) ==
    LET geoJSONFeature == ToGeoJSONFeature(feature)
    IN  IF IsFalsy(geoJSONFeature.id)
        THEN [geoJSONFeature EXCEPT !.id = Uuid(n + 1)]
        ELSE geoJSONFeature

\* addFeatureToLayer(layerId, feature)
AddFeatureToLayerOn(groups, layerId, feature, n) ==
    LET g == GroupOfLayer(groups, layerId)
    IN  IF g = 0
        THEN [layers |-> groups, result |-> "false", uuids |-> n]
        ELSE LET layer == groups[g].layers[FindIndexById(groups[g].layers, layerId)]
             IN  [layers |-> WithLayer(groups, g, layerId,
                        [layer EXCEPT !.features = Append(@, Stored(feature, n))]),
                  result |-> "true",
                  uuids |-> IF IsFalsy(feature.id) THEN n + 1 ELSE n]

\* the number of features of the layer of this id in group g
LastOf(groups, g, layerId) ==
    Len(groups[g].layers[FindIndexById(groups[g].layers, layerId)].features)

\* removeFeature without the test of the index: splice(-1, 1) removes the
\* last feature of the layer
RemoveFeatureUnchecked(groups, layerId, featureId) ==
    LET g == GroupOfLayer(groups, layerId)
    IN  IF g = 0 \/ LastOf(groups, g, layerId) = 0
        THEN [layers |-> groups, result |-> "false"]
        ELSE LET layer == groups[g].layers[FindIndexById(groups[g].layers, layerId)]
                 found == FindIndexById(layer.features, featureId)
                 index == IF found = 0 THEN Len(layer.features) ELSE found
             IN  [layers |-> WithLayer(groups, g, layerId,
                        [layer EXCEPT !.features = Splice(@, index)]),
                  result |-> "true"]

\* removeFeature(layerId, featureId)
RemoveFeatureOn(groups, layerId, featureId) ==
    LET g == GroupOfFeature(groups, layerId, featureId)
    IN  IF g = 0
        THEN [layers |-> groups, result |-> "false"]
        ELSE LET layer == groups[g].layers[FindIndexById(groups[g].layers, layerId)]
                 index == FindIndexById(layer.features, featureId)
             IN  [layers |-> WithLayer(groups, g, layerId,
                        [layer EXCEPT !.features = Splice(@, index)]),
                  result |-> "true"]

\* modifyFeature(layerId, featureId, properties)
ModifyFeatureOn(groups, layerId, featureId, properties) ==
    LET g == GroupOfFeature(groups, layerId, featureId)
    IN  IF g = 0
        THEN [layers |-> groups, result |-> "false"]
        ELSE LET layer == groups[g].layers[FindIndexById(groups[g].layers, layerId)]
                 index == FindIndexById(layer.features, featureId)
             IN  [layers |-> WithLayer(groups, g, layerId,
                        [layer EXCEPT !.features[index].properties =
                                          Spread(@, properties)]),
                  result |-> "true"]

\* setLayerVisibility(layerId, visible)
SetLayerVisibilityOn(groups, layerId, visible) ==
    LET g == GroupOfLayer(groups, layerId)
    IN  IF g = 0
        THEN [layers |-> groups, result |-> "false"]
        ELSE LET layer == groups[g].layers[FindIndexById(groups[g].layers, layerId)]
             IN  [layers |-> WithLayer(groups, g, layerId,
                                       [layer EXCEPT !.visible = visible]),
                  result |-> "true"]

\* setLayerStyle(layerId, style)
SetLayerStyleOn(groups, layerId, style) ==
    LET g == GroupOfLayer(groups, layerId)
    IN  IF g = 0
        THEN [layers |-> groups, result |-> "false"]
        ELSE LET layer == groups[g].layers[FindIndexById(groups[g].layers, layerId)]
             IN  [layers |-> WithLayer(groups, g, layerId,
                                       [layer EXCEPT !.style = style]),
                  result |-> "true"]

\* where the features of the store are: group, layer and index
FeaturePositions(groups) ==
    {p \in (1..Len(groups)) \X (1..MaxLayers) \X (1..MaxFeatures) :
        /\ p[2] <= Len(groups[p[1]].layers)
        /\ p[3] <= Len(groups[p[1]].layers[p[2]].features)}

FeatureAt(groups, p) == groups[p[1]].layers[p[2]].features[p[3]]

\* the ids of the groups, of the layers and of the features of the store
GroupIds(groups) == {groups[g].id : g \in 1..Len(groups)}

LayerIds(groups) ==
    UNION {{groups[g].layers[l].id : l \in 1..Len(groups[g].layers)} :
              g \in 1..Len(groups)}

FeatureIds(groups) == {FeatureAt(groups, p).id : p \in FeaturePositions(groups)}

\* getFeatureById(featureId): the position of the feature returned, <<>>
\* for null
GetFeatureById(groups, featureId) ==
    LET hits == {p \in FeaturePositions(groups) : FeatureAt(groups, p).id = featureId}
        Before(p, q) ==
            \/ p[1] < q[1]
            \/ p[1] = q[1] /\ p[2] < q[2]
            \/ p[1] = q[1] /\ p[2] = q[2] /\ p[3] <= q[3]
    IN  IF hits = {} THEN <<>>
        ELSE CHOOSE p \in hits : \A q \in hits : Before(p, q)

\* the arguments of the calls: the ids of the store and one that is not in
\* it; a feature's own id is absent, empty, a string of the caller or the id
\* of a feature of the store
GroupIdArgs == GroupIds(mapState.layers) \cup {"unknown"}

LayerIdArgs == LayerIds(mapState.layers) \cup {"unknown"}

FeatureIdArgs == FeatureIds(mapState.layers) \cup {"a", "unknown"}

FeatureArgs ==
    [id : FeatureIds(mapState.layers) \cup {"undefined", "", "a"},
     properties : {NullProperties, {<<"name", "x">>}}]

PropertiesArgs == {{<<"name", "y">>}, {<<"color", "red">>}}

\* new LayerService()
LInit ==
    /\ mapState = [layers |-> <<>>]
    /\ nUuids = 0
    /\ nLayerCalls = 0
    /\ layerCall = [op |-> "none"]
    /\ givenIds = <<>>

\* the feature pushed last on the layer of this id
LastFeature(groups, layerId) ==
    LET g == GroupOfLayer(groups, layerId)
        layer == groups[g].layers[FindIndexById(groups[g].layers, layerId)]
    IN  layer.features[Len(layer.features)]

\* a call returned: what it was given, the store it found and what it
\* returned
LayerCallReturns(op, groupId, layerId, featureId, done) ==
    /\ nLayerCalls < MaxLayerCalls
    /\ nLayerCalls' = nLayerCalls + 1
    /\ mapState' = [layers |-> done.layers]
    /\ layerCall' = [op |-> op, groupId |-> groupId, layerId |-> layerId,
                     featureId |-> featureId, result |-> done.result,
                     before |-> mapState.layers]
    /\ givenIds' = IF /\ op = "addFeatureToLayer"
                      /\ done.result = "true"
                      /\ IsFalsy(featureId)
                   THEN Append(givenIds, LastFeature(done.layers, layerId).id)
                   ELSE givenIds
    /\ UNCHANGED notLayers

CreateLayerGroup ==
    /\ Len(mapState.layers) < MaxGroups
    /\ LET done == CreateLayerGroupOn(mapState.layers, nUuids)
       IN  /\ LayerCallReturns("createLayerGroup", "undefined", "undefined",
                       "undefined", done)
           /\ nUuids' = done.uuids

CreateLayer ==
    \E groupId \in GroupIdArgs :
        /\ \A g \in 1..Len(mapState.layers) :
              Len(mapState.layers[g].layers) < MaxLayers
        /\ LET done == CreateLayerOn(mapState.layers, groupId, nUuids)
           IN  /\ LayerCallReturns("createLayer", groupId, "undefined", "undefined",
                           done)
               /\ nUuids' = done.uuids

AddFeatureToLayer ==
    \E layerId \in LayerIdArgs, feature \in FeatureArgs :
        /\ \A p \in FeaturePositions(mapState.layers) : p[3] < MaxFeatures
        /\ LET done == AddFeatureToLayerOn(mapState.layers, layerId, feature,
                                           nUuids)
           IN  /\ LayerCallReturns("addFeatureToLayer", "undefined", layerId,
                           feature.id, done)
               /\ nUuids' = done.uuids

RemoveFeature ==
    \E layerId \in LayerIdArgs, featureId \in FeatureIdArgs :
        /\ LayerCallReturns("removeFeature", "undefined", layerId, featureId,
                    RemoveFeatureOn(mapState.layers, layerId, featureId))
        /\ UNCHANGED nUuids

ModifyFeature ==
    \E layerId \in LayerIdArgs, featureId \in FeatureIdArgs,
       properties \in PropertiesArgs :
        /\ LayerCallReturns("modifyFeature", "undefined", layerId, featureId,
                    ModifyFeatureOn(mapState.layers, layerId, featureId,
                                    properties))
        /\ UNCHANGED nUuids

SetLayerVisibility ==
    \E layerId \in LayerIdArgs, visible \in BOOLEAN :
        /\ LayerCallReturns("setLayerVisibility", "undefined", layerId, "undefined",
                    SetLayerVisibilityOn(mapState.layers, layerId, visible))
        /\ UNCHANGED nUuids

SetLayerStyle ==
    \E layerId \in LayerIdArgs :
        /\ LayerCallReturns("setLayerStyle", "undefined", layerId, "undefined",
                    SetLayerStyleOn(mapState.layers, layerId, "red"))
        /\ UNCHANGED nUuids

LayerNext ==
    \/ CreateLayerGroup
    \/ CreateLayer
    \/ AddFeatureToLayer
    \/ RemoveFeature
    \/ ModifyFeature
    \/ SetLayerVisibility
    \/ SetLayerStyle

(***************************************************************************)
(* useMapThrottle.executeOperation                                         *)
(*                                                                         *)
(* executeOperation calls execute of the hook's ThrottleManager in the     *)
(* same turn and races its promise against a promise that only the timer   *)
(* of options.timeout rejects.  The call of caller c is the manager's      *)
(* execute of c; the timer is pending from then on until the race has      *)
(* settled.  The duration of the timeout is the caller's, so the timer may *)
(* fire at any turn of the event loop in which no continuation is pending. *)
(***************************************************************************)
OInit ==
    /\ raced = [c \in Callers |-> "pending"]
    /\ pcAtTimeout = [c \in Callers |-> "none"]

\* no continuation of a settled race is pending
RacesSettled == \A c \in Callers : ~(pc[c] = "settled" /\ raced[c] = "pending")

\* the timeout callback of caller c, lines 77-79: reject(new Error(...)).
\* The race is settled by it when the promise of execute has not settled.
OperationTimeout(c) ==
    /\ pc[c] \in {"queued", "running"}
    /\ raced[c] = "pending"
    /\ woken = <<>>
    /\ RacesSettled
    /\ raced' = [raced EXCEPT ![c] = "timeout"]
    /\ pcAtTimeout' = [pcAtTimeout EXCEPT ![c] = pc[c]]
    /\ UNCHANGED tvars
    /\ UNCHANGED notOperation

\* the promise of execute has settled and the race is pending: the
\* continuation of the await, lines 84-93 (clearTimeout, return result) or
\* the catch block, lines 94-102, when the operation rejected
OperationSettled(c) ==
    /\ pc[c] = "settled"
    /\ raced[c] = "pending"
    /\ raced' = [raced EXCEPT ![c] = "operation"]
    /\ UNCHANGED pcAtTimeout
    /\ UNCHANGED tvars
    /\ UNCHANGED notOperation

OperationNext ==
    \/ Execute
    \/ Resume
    \/ \E c \in Callers : Complete(c)
    \/ CooldownTimer
    \/ Tick
    \/ \E c \in Callers : OperationTimeout(c)
    \/ \E c \in Callers : OperationSettled(c)

(***************************************************************************)
(* useMapPersistence: saveState and setupAutoSave                          *)
(*                                                                         *)
(* A map state is its zoom; JSON.stringify writes it as the text of an     *)
(* object.  localStorage.setItem either stores the text or throws (quota   *)
(* exceeded, storage disabled), and so do getItem and removeItem.  The     *)
(* item under STORAGE_KEY outlives the page: at the start it is absent,    *)
(* the text of a state, or a text JSON.parse rejects.                      *)
(***************************************************************************)
\* The states getState returns.
MapStates == {[zoom |-> 2], [zoom |-> 3]}

\* JSON.stringify(state)
StringifyState(st) == "{\"zoom\":" \o ToString(st.zoom) \o "}"

\* the items localStorage can hold when the hook is created
StoredItems == {"null", "{\"zoom\":2}", "{\"zoom\":"}

\* JSON.parse(savedState): the state the text writes, or a SyntaxError
ParseState(item) ==
    CASE item = "{\"zoom\":2}" -> [ok |-> TRUE, state |-> [zoom |-> 2]]
      [] item = "{\"zoom\":3}" -> [ok |-> TRUE, state |-> [zoom |-> 3]]
      [] OTHER -> [ok |-> FALSE, state |-> [zoom |-> 0]]

\* saveState(state), lines 17-31, with setItem returning or throwing: the
\* item stored and the calls of onStateError
SaveState(st, setItem, item, errors) ==
    IF setItem = "throws"
    THEN [localStorage |-> item, reported |-> Append(errors, "QuotaExceededError")]
    ELSE [localStorage |-> StringifyState(st), reported |-> errors]

\* setupAutoSave(getState), lines 86-89: lastSavedState = '' and the
\* interval is set
SInit ==
    /\ currentState \in MapStates
    /\ lastSavedState = ""
    /\ localStorage \in StoredItems
    /\ intervalId = "armed"
    /\ reported = <<>>
    /\ nTicks = 0
    /\ loaded = <<>>
    /\ nPersist = 0
    /\ lastTick = [state |-> "none", attempted |-> FALSE, failed |-> FALSE,
                   retry |-> FALSE]

\* the application changes the map state
ChangeState ==
    /\ \E st \in MapStates : st # currentState /\ currentState' = st
    /\ UNCHANGED <<lastSavedState, localStorage, intervalId, reported, nTicks,
                   loaded, nPersist, lastTick>>
    /\ UNCHANGED notPersistence

\* the interval fires: the callback of setInterval, lines 89-98
AutoSaveTick ==
    /\ intervalId = "armed"
    /\ nTicks < MaxTicks
    /\ nTicks' = nTicks + 1
    /\ LET currentStateString == StringifyState(currentState)
       IN  \E setItem \in {"returns", "throws"} :
             IF currentStateString # lastSavedState
             THEN LET saved == SaveState(currentState, setItem, localStorage,
                                         reported)
                  IN  /\ localStorage' = saved.localStorage
                      /\ reported' = saved.reported
                      /\ lastSavedState' = currentStateString
                      /\ lastTick' = [state |-> currentStateString,
                                      attempted |-> TRUE,
                                      failed |-> setItem = "throws",
                                      retry |-> /\ lastTick.failed
                                                /\ lastTick.state = currentStateString]
             ELSE /\ UNCHANGED <<localStorage, reported, lastSavedState>>
                  /\ lastTick' = [state |-> currentStateString,
                                  attempted |-> FALSE,
                                  failed |-> lastTick.failed,
                                  retry |-> /\ lastTick.failed
                                            /\ lastTick.state = currentStateString]
    /\ UNCHANGED <<currentState, intervalId, loaded, nPersist>>
    /\ UNCHANGED notPersistence

\* saveState(state) called by the application, lines 17-31: the text of the
\* state is stored, or the exception of setItem goes to onStateError;
\* lastSavedState belongs to setupAutoSave and is not written
SaveStateCall ==
    /\ nPersist < MaxPersistCalls
    /\ nPersist' = nPersist + 1
    /\ \E st \in MapStates, setItem \in {"returns", "throws"} :
          LET saved == SaveState(st, setItem, localStorage, reported)
          IN  /\ localStorage' = saved.localStorage
              /\ reported' = saved.reported
    /\ UNCHANGED <<currentState, lastSavedState, intervalId, nTicks, loaded,
                   lastTick>>
    /\ UNCHANGED notPersistence

\* loadState(), lines 33-53: no item returns null; a parsed item goes to
\* onStateLoad; an exception of getItem or of JSON.parse goes to
\* onStateError
LoadState ==
    /\ nPersist < MaxPersistCalls
    /\ nPersist' = nPersist + 1
    /\ \E getItem \in {"returns", "throws"} :
          IF getItem = "throws"
          THEN /\ reported' = Append(reported, "SecurityError")
               /\ UNCHANGED loaded
          ELSE IF localStorage = "null"
          THEN UNCHANGED <<reported, loaded>>
          ELSE IF ParseState(localStorage).ok
          THEN /\ loaded' = Append(loaded, ParseState(localStorage).state)
               /\ UNCHANGED reported
          ELSE /\ reported' = Append(reported, "SyntaxError")
               /\ UNCHANGED loaded
    /\ UNCHANGED <<currentState, lastSavedState, localStorage, intervalId,
                   nTicks, lastTick>>
    /\ UNCHANGED notPersistence

\* clearState(), lines 55-66: the item is removed, or the exception of
\* removeItem goes to onStateError; lastSavedState is not written
ClearState ==
    /\ nPersist < MaxPersistCalls
    /\ nPersist' = nPersist + 1
    /\ \E removeItem \in {"returns", "throws"} :
          IF removeItem = "throws"
          THEN /\ reported' = Append(reported, "SecurityError")
               /\ UNCHANGED localStorage
          ELSE /\ localStorage' = "null"
               /\ UNCHANGED reported
    /\ UNCHANGED <<currentState, lastSavedState, intervalId, nTicks, loaded,
                   lastTick>>
    /\ UNCHANGED notPersistence

\* the function setupAutoSave returned is called: clearInterval, line 100
ClearAutoSave ==
    /\ intervalId = "armed"
    /\ intervalId' = "cleared"
    /\ UNCHANGED <<currentState, lastSavedState, localStorage, reported, nTicks,
                   loaded, nPersist, lastTick>>
    /\ UNCHANGED notPersistence

PersistenceNext ==
    \/ ChangeState
    \/ AutoSaveTick
    \/ SaveStateCall
    \/ LoadState
    \/ ClearState
    \/ ClearAutoSave

(***************************************************************************)
(* WorkerPool                                                              *)
(*                                                                         *)
(* The workers are outside the pool: a worker may post any message at any  *)
(* time, with the taskId of any task or one that is no task's, and may     *)
(* fail at any time.  crypto.randomUUID returns an id it has not returned  *)
(* before.                                                                 *)
(***************************************************************************)
\* The poolSize the pool is constructed with.
PoolSizes == {1, 2}

\* The indexes of the workers of the largest pool.
WorkerIds == UNION {0..(n - 1) : n \in PoolSizes}

\* The tasks, numbered in the order of the execute calls.
Tasks == 1..MaxTasks

\* the id crypto.randomUUID gives to task t
TaskId(t) == "task-" \o ToString(t)

\* The taskId of a message: the id of a task or another string.
MessageTaskIds == {TaskId(t) : t \in Tasks} \cup {"stray"}

\* The payload of a message.
Payloads == {"p1", "p2"}

\* The messages a worker may post.
Messages == [taskId : MessageTaskIds, payload : Payloads]

\* this.workers.findIndex((_, index) => !this.active.has(index)), -1 when
\* every worker has a task
AvailableWorker(act) ==
    LET free == {w \in 0..(poolSize - 1) : act[w] = 0}
    IN  IF free = {} THEN -1 ELSE CHOOSE w \in free : \A v \in free : w <= v

\* The data of a task: data the structured clone of postMessage copies,
\* and data with a function, for which postMessage throws DataCloneError.
TaskData == {"plain", "function"}

\* processQueue, lines 129-162: while a task waits and a worker is free,
\* shift the task, record it as the worker's and post it; when postMessage
\* throws, the catch logs and processQueue returns, with the task shifted
\* and recorded and the tasks behind it left in the queue
RECURSIVE PoolProcessQueue(_, _, _, _, _)
PoolProcessQueue(q, act, assigned, log, data) ==
    IF q = <<>> \/ AvailableWorker(act) = -1
    THEN [queue |-> q, active |-> act, assigned |-> assigned, posted |-> log]
    ELSE LET w == AvailableWorker(act)
         IN  IF data[Head(q)] = "function"
             THEN [queue |-> Tail(q), active |-> [act EXCEPT ![w] = Head(q)],
                   assigned |-> [assigned EXCEPT ![Head(q)] = w],
                   posted |-> log]
             ELSE PoolProcessQueue(Tail(q), [act EXCEPT ![w] = Head(q)],
                                   [assigned EXCEPT ![Head(q)] = w],
                                   Append(log, [task |-> Head(q), worker |-> w,
                                                had |-> act[w]]),
                                   data)

\* new WorkerPool(workerScript, poolSize)
WInit ==
    /\ poolSize \in PoolSizes
    /\ workerQueue = <<>>
    /\ workerActive = [w \in 0..(poolSize - 1) |-> 0]
    /\ promises = [t \in Tasks |-> [state |-> "none", payload |-> "none"]]
    /\ terminated = FALSE
    /\ nTasks = 0
    /\ assignedTo = [t \in Tasks |-> -1]
    /\ taskData = [t \in Tasks |-> "none"]
    /\ posted = <<>>
    /\ lastEvent = [op |-> "none"]

\* execute(type, data), lines 164-194
ExecuteTask ==
    /\ nTasks < MaxTasks
    /\ \E data \in TaskData :
       LET t == nTasks + 1
           given == [taskData EXCEPT ![t] = data]
           r == PoolProcessQueue(Append(workerQueue, t), workerActive, assignedTo,
                                 posted, given)
       IN  /\ nTasks' = t
           /\ taskData' = given
           /\ promises' = [promises EXCEPT ![t].state = "pending"]
           /\ workerQueue' = r.queue
           /\ workerActive' = r.active
           /\ assignedTo' = r.assigned
           /\ posted' = r.posted
    /\ lastEvent' = [op |-> "execute"]
    /\ UNCHANGED <<poolSize, terminated>>
    /\ UNCHANGED notPool

\* handleMessage without the test of the taskId
HandleMessageUnchecked(w, message) ==
    /\ w < poolSize
    /\ ~terminated
    /\ lastEvent' = [op |-> "message", worker |-> w, taskId |-> message.taskId,
                     had |-> workerActive[w], before |-> promises]
    /\ IF workerActive[w] = 0
       THEN UNCHANGED <<workerQueue, workerActive, promises, assignedTo, posted>>
       ELSE LET t == workerActive[w]
                r == PoolProcessQueue(workerQueue, [workerActive EXCEPT ![w] = 0],
                                      assignedTo, posted, taskData)
            IN  /\ promises' = [promises EXCEPT
                                  ![t] = [state |-> "resolved",
                                          payload |-> message.payload]]
                /\ workerQueue' = r.queue
                /\ workerActive' = r.active
                /\ assignedTo' = r.assigned
                /\ posted' = r.posted
    /\ UNCHANGED <<poolSize, terminated, nTasks, taskData>>
    /\ UNCHANGED notPool

\* worker w posts a message: handleMessage(workerId, message), lines 56-92
HandleMessage(w, message) ==
    /\ w < poolSize
    /\ ~terminated
    /\ lastEvent' = [op |-> "message", worker |-> w, taskId |-> message.taskId,
                     had |-> workerActive[w], before |-> promises]
    /\ IF workerActive[w] = 0 \/ message.taskId # TaskId(workerActive[w])
       THEN \* the error thrown is caught and logged
            UNCHANGED <<workerQueue, workerActive, promises, assignedTo, posted>>
       ELSE LET t == workerActive[w]
                r == PoolProcessQueue(workerQueue, [workerActive EXCEPT ![w] = 0],
                                      assignedTo, posted, taskData)
            IN  /\ promises' = [promises EXCEPT
                                  ![t] = [state |-> "resolved",
                                          payload |-> message.payload]]
                /\ workerQueue' = r.queue
                /\ workerActive' = r.active
                /\ assignedTo' = r.assigned
                /\ posted' = r.posted
    /\ UNCHANGED <<poolSize, terminated, nTasks, taskData>>
    /\ UNCHANGED notPool

\* worker w fails: handleError(workerId, error), lines 94-127
HandleError(w) ==
    /\ w < poolSize
    /\ ~terminated
    /\ lastEvent' = [op |-> "error", worker |-> w]
    /\ IF workerActive[w] = 0
       THEN UNCHANGED <<workerQueue, workerActive, promises, assignedTo, posted>>
       ELSE LET t == workerActive[w]
                r == PoolProcessQueue(workerQueue, [workerActive EXCEPT ![w] = 0],
                                      assignedTo, posted, taskData)
            IN  /\ promises' = [promises EXCEPT ![t].state = "rejected"]
                /\ workerQueue' = r.queue
                /\ workerActive' = r.active
                /\ assignedTo' = r.assigned
                /\ posted' = r.posted
    /\ UNCHANGED <<poolSize, terminated, nTasks, taskData>>
    /\ UNCHANGED notPool

\* terminate(), lines 227-239: the workers are terminated and post nothing
\* any more
Terminate ==
    /\ ~terminated
    /\ terminated' = TRUE
    /\ workerQueue' = <<>>
    /\ workerActive' = [w \in 0..(poolSize - 1) |-> 0]
    /\ lastEvent' = [op |-> "terminate"]
    /\ UNCHANGED <<poolSize, promises, nTasks, assignedTo, taskData, posted>>
    /\ UNCHANGED notPool

PoolNext ==
    \/ ExecuteTask
    \/ \E w \in WorkerIds, message \in Messages : HandleMessage(w, message)
    \/ \E w \in WorkerIds : HandleError(w)
    \/ Terminate

(***************************************************************************)
(* SpatialService                                                          *)
(*                                                                         *)
(* The geometry library is outside the service: a call of it returns or    *)
(* throws, and turf.buffer may return undefined.  Geometries lie along one *)
(* axis: a point at x, or a square of side w centred on the axis from x to *)
(* x + w; distances are in kilometres and a unit of length is 1000 m.      *)
(***************************************************************************)
\* The geometries of the features given.
Geometries ==
    {[type |-> "Point", x |-> 0, w |-> 0],
     [type |-> "Point", x |-> 3, w |-> 0],
     [type |-> "Polygon", x |-> 0, w |-> 2]}

\* The feature objects a caller holds; ref names the object.
SpatialFeatures == [ref : {"a", "b"}, id : {"f1"}, geometry : Geometries]

\* The lists of at most MaxSpatial features without an object twice.
FeatureLists ==
    {l \in UNION {[1..n -> SpatialFeatures] : n \in 0..MaxSpatial} :
        \A k, j \in 1..Len(l) : k # j => l[k].ref # l[j].ref}

\* The distances given to createBuffer.
BufferDistances == {1, 2}

\* What a call of the library does.
TurfOutcomes == {"returns", "throws"}

\* fromGeoJSONFeature(feature), geo.ts: a new object over the same geometry
FromGeoJSONFeature(feature) ==
    [ref |-> "copy", id |-> feature.id, geometry |-> feature.geometry]

\* toGeoJSONFeature(feature), geo.ts lines 8-15, on a feature with a
\* geometry: a new object with the geometry and the id of its argument
ToGeoJSONSpatial(feature) ==
    [ref |-> "new", id |-> feature.id, geometry |-> feature.geometry]

\* toGeoJSONFeature(feature) of a feature the library built from a geometry
\* (turf.buffer, turf.centroid): such a feature has no id
ResultFeature(geometry) ==
    ToGeoJSONSpatial([ref |-> "turf", id |-> "undefined",
                      geometry |-> geometry])

AbsDiff(a, b) == IF a >= b THEN a - b ELSE b - a

\* turf.center(feature): the centre of the feature's extent, twice its x
Center2(feature) == 2 * feature.geometry.x + feature.geometry.w

\* turf.distance(turf.center(from), turf.center(to)), halved kilometres
TurfDistance2(from, to) == AbsDiff(Center2(from), Center2(to))

\* turf.area(feature), in square metres
TurfArea(feature) == feature.geometry.w * feature.geometry.w * 1000000

\* turf.bbox(collection): [minX, minY, maxX, maxY], halved units
RECURSIVE MinOver(_, _)
MinOver(l, k) ==
    IF k = Len(l) THEN l[k]
    ELSE LET m == MinOver(l, k + 1) IN IF l[k] <= m THEN l[k] ELSE m

RECURSIVE MaxOver(_, _)
MaxOver(l, k) ==
    IF k = Len(l) THEN l[k]
    ELSE LET m == MaxOver(l, k + 1) IN IF l[k] >= m THEN l[k] ELSE m

TurfBbox2(features) ==
    <<MinOver([k \in 1..Len(features) |-> 2 * features[k].geometry.x], 1),
      MinOver([k \in 1..Len(features) |-> 0 - features[k].geometry.w], 1),
      MaxOver([k \in 1..Len(features) |->
                  2 * (features[k].geometry.x + features[k].geometry.w)], 1),
      MaxOver([k \in 1..Len(features) |-> features[k].geometry.w], 1)>>

\* the loop of calculateDistance, lines 18-29, from index i
RECURSIVE TotalDistance2(_, _)
TotalDistance2(features, i) ==
    IF i >= Len(features) THEN 0
    ELSE TurfDistance2(FromGeoJSONFeature(features[i]),
                       FromGeoJSONFeature(features[i + 1]))
           + TotalDistance2(features, i + 1)

\* the loop of calculateArea, lines 56-61, from index i
RECURSIVE TotalArea(_, _)
TotalArea(features, i) ==
    IF i > Len(features) THEN 0
    ELSE TurfArea(FromGeoJSONFeature(features[i])) + TotalArea(features, i + 1)

\* calculateDistance(features), lines 8-44; the value is twice the distance
CalculateDistanceOf(features, turf) ==
    IF Len(features) < 2 THEN [value |-> 0, threw |-> FALSE]
    ELSE IF turf = "throws" THEN [value |-> 0, threw |-> FALSE]
    ELSE [value |-> TotalDistance2(features, 1), threw |-> FALSE]

\* calculateArea(features), lines 46-78
CalculateAreaOf(features, turf) ==
    IF Len(features) = 0 THEN [value |-> 0, threw |-> FALSE]
    ELSE IF turf = "throws" THEN [value |-> 0, threw |-> FALSE]
    ELSE [value |-> TotalArea(features, 1) \div 1000000, threw |-> FALSE]

\* createBuffer without its catch
CreateBufferUncaught(feature, distance, turf) ==
    IF turf \in {"throws", "undefined"}
    THEN [value |-> "error", threw |-> TRUE]
    ELSE [value |-> ResultFeature(
                      [type |-> "Polygon",
                       x |-> FromGeoJSONFeature(feature).geometry.x - distance,
                       w |-> FromGeoJSONFeature(feature).geometry.w
                               + 2 * distance]),
          threw |-> FALSE]

\* createBuffer(feature, distance, units), lines 80-108
CreateBufferOf(feature, distance, turf) ==
    IF turf \in {"throws", "undefined"}
    THEN [value |-> feature, threw |-> FALSE]
    ELSE [value |-> ResultFeature(
                      [type |-> "Polygon",
                       x |-> FromGeoJSONFeature(feature).geometry.x - distance,
                       w |-> FromGeoJSONFeature(feature).geometry.w
                               + 2 * distance]),
          threw |-> FALSE]

\* simplifyGeometry(feature, tolerance), lines 110-130
SimplifyGeometryOf(feature, turf) ==
    IF turf = "throws"
    THEN [value |-> feature, threw |-> FALSE]
    ELSE [value |-> ToGeoJSONSpatial(FromGeoJSONFeature(feature)),
          threw |-> FALSE]

\* getBoundingBox(features), lines 132-166: bounds takes bbox[0], bbox[1],
\* bbox[bbox.length - 3] and bbox[bbox.length - 2]
GetBoundingBoxOf(features, turf) ==
    IF Len(features) = 0 THEN [value |-> "null", threw |-> FALSE]
    ELSE IF turf = "throws" THEN [value |-> "null", threw |-> FALSE]
    ELSE LET bbox == TurfBbox2([k \in 1..Len(features) |->
                                   FromGeoJSONFeature(features[k])])
         IN  [value |-> <<bbox[1], bbox[2], bbox[Len(bbox) - 2],
                          bbox[Len(bbox) - 1]>>,
              threw |-> FALSE]

\* getCentroid(feature), lines 168-188
GetCentroidOf(feature, turf) ==
    IF turf = "throws"
    THEN [value |-> feature, threw |-> FALSE]
    ELSE [value |-> ResultFeature(
                      [type |-> "Point",
                       x |-> Center2(FromGeoJSONFeature(feature)) \div 2,
                       w |-> 0]),
          threw |-> FALSE]

\* new SpatialService()
GInit == spatialCall = [fn |-> "none"]

CalculateDistance ==
    /\ \E features \in FeatureLists, turf \in TurfOutcomes :
          spatialCall' = [fn |-> "calculateDistance", features |-> features,
                          turf |-> turf,
                          returned |-> CalculateDistanceOf(features, turf)]
    /\ UNCHANGED notSpatial

CalculateArea ==
    /\ \E features \in FeatureLists, turf \in TurfOutcomes :
          spatialCall' = [fn |-> "calculateArea", features |-> features,
                          turf |-> turf,
                          returned |-> CalculateAreaOf(features, turf)]
    /\ UNCHANGED notSpatial

CreateBuffer ==
    /\ \E feature \in SpatialFeatures, distance \in BufferDistances,
          turf \in TurfOutcomes \cup {"undefined"} :
          spatialCall' = [fn |-> "createBuffer", feature |-> feature,
                          distance |-> distance, turf |-> turf,
                          returned |-> CreateBufferOf(feature, distance, turf)]
    /\ UNCHANGED notSpatial

SimplifyGeometry ==
    /\ \E feature \in SpatialFeatures, turf \in TurfOutcomes :
          spatialCall' = [fn |-> "simplifyGeometry", feature |-> feature,
                          turf |-> turf,
                          returned |-> SimplifyGeometryOf(feature, turf)]
    /\ UNCHANGED notSpatial

GetBoundingBox ==
    /\ \E features \in FeatureLists, turf \in TurfOutcomes :
          spatialCall' = [fn |-> "getBoundingBox", features |-> features,
                          turf |-> turf,
                          returned |-> GetBoundingBoxOf(features, turf)]
    /\ UNCHANGED notSpatial

GetCentroid ==
    /\ \E feature \in SpatialFeatures, turf \in TurfOutcomes :
          spatialCall' = [fn |-> "getCentroid", feature |-> feature,
                          turf |-> turf,
                          returned |-> GetCentroidOf(feature, turf)]
    /\ UNCHANGED notSpatial

SpatialNext ==
    \/ CalculateDistance
    \/ CalculateArea
    \/ CreateBuffer
    \/ SimplifyGeometry
    \/ GetBoundingBox
    \/ GetCentroid

(***************************************************************************)
(* The map methods of MapComponent                                         *)
(*                                                                         *)
(* The component holds one LayerService, made from the initialState prop,  *)
(* the Leaflet layer groups markers, features and buffers, and the history *)
(* of useMapHistory with the default maxHistorySize.  addFeature and       *)
(* removeFeature are the methods that add to and remove from the service;  *)
(* modifyFeature and styleFeature write the properties of the feature      *)
(* object the service stores.  The buffer control records a create         *)
(* operation, the layer control calls the service, and the history         *)
(* shortcuts call undo and redo, whose callbacks only log.                 *)
(*                                                                         *)
(* fromGeoJSONFeature and toGeoJSONFeature copy the feature and keep its   *)
(* properties object, so a stored feature shares this object with the      *)
(* caller and with every feature stored from the same object.  A stored    *)
(* feature has a field ref that names its properties object: an object of  *)
(* the caller, or "own" for an object that only this feature holds.        *)
(***************************************************************************)
\* the keys of layerGroups after the map is initialized, lines 127-132
LeafletGroups == {"markers", "features", "buffers"}

\* a layer of the initialState prop
InitialLayer(id, features) ==
    [id |-> id, visible |-> TRUE, style |-> "undefined", features |-> features]

\* The values of initialState.layers: none, a layer named as a Leaflet
\* group, and that layer with a feature beside a layer of another name.
InitialLayerLists ==
    {<<>>,
     <<[id |-> "group", visible |-> TRUE,
        layers |-> <<InitialLayer("features", <<>>)>>]>>,
     <<[id |-> "group", visible |-> TRUE,
        layers |-> <<InitialLayer("features",
                                  <<[id |-> "a", properties |-> {},
                                     ref |-> "own"]>>),
                     InitialLayer("other", <<>>)>>]>>}

\* The arguments of the map methods.
MethodLayerIds == {"markers", "features", "other", "missing"}

\* the properties objects of the caller, and the ids of the features given
PropertyObjects == {"o1", "o2"}

MethodFeatureIds == {"undefined", "b"}

\* fromGeoJSONFeature(feature) on a feature without geometry: the id is
\* left out when it is falsy
WithoutFalsyId(feature) ==
    [id |-> IF IsFalsy(feature.id) THEN "undefined" ELSE feature.id,
     properties |-> feature.properties]

\* new LayerService(initialState), useMapHistory({onUndo, onRedo}) and the
\* first render
MInit ==
    /\ methodCall = [fn |-> "none"]
    /\ objects = [o \in PropertyObjects |-> {<<"name", "x">>}]

MethodsInit ==
    /\ mapState \in [layers : InitialLayerLists]
    /\ nUuids = 0
    /\ nLayerCalls = 0
    /\ layerCall = [op |-> "none"]
    /\ givenIds = <<>>
    /\ maxHistorySize = DefaultHistorySize
    /\ undoStack = <<>>
    /\ redoStack = <<>>
    /\ undoSeen = <<>>
    /\ redoSeen = <<>>
    /\ nHistoryCalls = 0
    /\ lastCall = NoCall
    /\ MInit

\* recordCreate(layerId, feature) and recordDelete(layerId, feature):
\* pushOperation of an operation of this type
RecordOperation ==
    /\ nHistoryCalls' = nHistoryCalls + 1
    /\ undoStack' = PushUpdater(undoStack, nHistoryCalls + 1)
    /\ redoStack' = RedoCleared(redoStack)
    /\ lastCall' = [CallOf("push") EXCEPT !.operation = nHistoryCalls + 1]
    /\ UNCHANGED <<maxHistorySize, undoSeen, redoSeen>>

\* the feature addFeatureToLayer pushed last on the layer, with the name
\* of the properties object it was given
SharingProperties(groups, layerId, o) ==
    LET g == GroupOfLayer(groups, layerId)
        l == FindIndexById(groups[g].layers, layerId)
        i == Len(groups[g].layers[l].features)
    IN  [groups EXCEPT ![g].layers[l].features[i] =
            [id |-> @.id, properties |-> @.properties, ref |-> o]]

\* methods.addFeature(feature, layerId, style), lines 158-171
MethodAddFeature ==
    \E id \in MethodFeatureIds, o \in PropertyObjects,
       layerId \in MethodLayerIds :
      LET feature == [id |-> id, properties |-> objects[o]]
      IN
        /\ nHistoryCalls < MaxMethodCalls
        /\ \A p \in FeaturePositions(mapState.layers) : p[3] < MaxFeatures
        /\ IF layerId \notin LeafletGroups
           THEN /\ methodCall' = [fn |-> "addFeature", layerId |-> layerId,
                                  featureId |-> feature.id,
                                  undoBefore |-> undoStack,
                                  result |-> "not called",
                                  recorded |-> "none"]
                /\ UNCHANGED <<lvars, hvars>>
           ELSE LET done == AddFeatureToLayerOn(mapState.layers, layerId,
                                WithoutFalsyId(feature), nUuids)
                IN  /\ mapState' = [layers |->
                            IF done.result = "true"
                            THEN SharingProperties(done.layers, layerId, o)
                            ELSE done.layers]
                    /\ nUuids' = done.uuids
                    /\ RecordOperation
                    /\ methodCall' = [fn |-> "addFeature", layerId |-> layerId,
                                      featureId |-> feature.id,
                                      undoBefore |-> undoStack,
                                      result |-> done.result,
                                      recorded |-> "create"]
                    /\ UNCHANGED <<nLayerCalls, layerCall, givenIds>>
        /\ UNCHANGED objects
        /\ UNCHANGED notMethods

\* methods.removeFeature(featureId, layerId), lines 183-190
MethodRemoveFeature ==
    \E featureId \in FeatureIds(mapState.layers) \cup {"unknown"},
       layerId \in MethodLayerIds :
        /\ nHistoryCalls < MaxMethodCalls
        /\ IF GetFeatureById(mapState.layers, featureId) = <<>>
           THEN /\ methodCall' = [fn |-> "removeFeature", layerId |-> layerId,
                                  featureId |-> featureId,
                                  undoBefore |-> undoStack,
                                  result |-> "not called",
                                  recorded |-> "none"]
                /\ UNCHANGED <<lvars, hvars>>
           ELSE LET done == RemoveFeatureOn(mapState.layers, layerId, featureId)
                IN  /\ RecordOperation
                    /\ mapState' = [layers |-> done.layers]
                    /\ methodCall' = [fn |-> "removeFeature",
                                      layerId |-> layerId,
                                      featureId |-> featureId,
                                      undoBefore |-> undoStack,
                                      result |-> done.result,
                                      recorded |-> "delete"]
                    /\ UNCHANGED <<nUuids, nLayerCalls, layerCall, givenIds>>
        /\ UNCHANGED objects
        /\ UNCHANGED notMethods

\* the feature at position p with a new properties object: an assignment
\* to feature.properties of the object getFeatureById returned
WithProperties(groups, p, properties) ==
    [groups EXCEPT ![p[1]].layers[p[2]].features[p[3]].properties = properties,
                   ![p[1]].layers[p[2]].features[p[3]].ref = "own"]

\* the positions of the stored features that hold the properties object of
\* the feature at position p
SharingWith(groups, p) ==
    IF FeatureAt(groups, p).ref = "own" THEN {p}
    ELSE {q \in FeaturePositions(groups) :
             FeatureAt(groups, q).ref = FeatureAt(groups, p).ref}

\* feature.properties.style = style on the feature at position p: the
\* properties object is written, and every stored feature that holds it
\* shows the style
StyledInPlace(groups, p, style) ==
    [g \in 1..Len(groups) |->
        [groups[g] EXCEPT !.layers =
            [l \in 1..Len(groups[g].layers) |->
                [groups[g].layers[l] EXCEPT !.features =
                    [i \in 1..Len(groups[g].layers[l].features) |->
                        IF <<g, l, i>> \in SharingWith(groups, p)
                        THEN [groups[g].layers[l].features[i] EXCEPT
                                 !.properties = Spread(@, {<<"style", style>>})]
                        ELSE groups[g].layers[l].features[i]]]]]]

\* a call of a method that found no feature, or a handler without a
\* selection: nothing is written
MethodDidNothing(fn, featureId) ==
    /\ methodCall' = [fn |-> fn, layerId |-> "undefined",
                      featureId |-> featureId, undoBefore |-> undoStack,
                      result |-> "not called", recorded |-> "none"]
    /\ UNCHANGED <<lvars, hvars, objects>>

\* methods.modifyFeature(featureId, properties), lines 173-181
MethodModifyFeature ==
    \E featureId \in FeatureIds(mapState.layers) \cup {"unknown"},
       properties \in PropertiesArgs :
        /\ nHistoryCalls < MaxMethodCalls
        /\ LET p == GetFeatureById(mapState.layers, featureId)
           IN  IF p = <<>>
               THEN MethodDidNothing("modifyFeature", featureId)
               ELSE /\ UNCHANGED objects
                    /\ mapState' = [layers |-> WithProperties(mapState.layers, p,
                                        Spread(FeatureAt(mapState.layers, p).properties,
                                               properties))]
                    /\ RecordOperation
                    /\ methodCall' = [fn |-> "modifyFeature",
                                      layerId |-> "undefined",
                                      featureId |-> featureId,
                                      undoBefore |-> undoStack,
                                      result |-> "not called",
                                      recorded |-> "modify"]
                    /\ UNCHANGED <<nUuids, nLayerCalls, layerCall, givenIds>>
        /\ UNCHANGED notMethods

\* methods.styleFeature(featureId, style), lines 192-199
MethodStyleFeature ==
    \E featureId \in FeatureIds(mapState.layers) \cup {"unknown"} :
        /\ nHistoryCalls < MaxMethodCalls
        /\ LET p == GetFeatureById(mapState.layers, featureId)
           IN  IF p = <<>>
               THEN MethodDidNothing("styleFeature", featureId)
               ELSE /\ RecordOperation
                    /\ mapState' = [layers |->
                                        StyledInPlace(mapState.layers, p, "red")]
                    /\ objects' =
                          [o \in PropertyObjects |->
                              IF o = FeatureAt(mapState.layers, p).ref
                              THEN Spread(objects[o], {<<"style", "red">>})
                              ELSE objects[o]]
                    /\ methodCall' = [fn |-> "styleFeature",
                                      layerId |-> "undefined",
                                      featureId |-> featureId,
                                      undoBefore |-> undoStack,
                                      result |-> "not called",
                                      recorded |-> "style"]
                    /\ UNCHANGED <<nUuids, nLayerCalls, layerCall, givenIds>>
        /\ UNCHANGED notMethods

\* onBufferCreate(distance, units) of the buffer control, lines 233-242:
\* with a selected feature, createBuffer and recordCreate('buffers', ..);
\* the service is not called
MethodBufferCreate ==
    \E selected \in BOOLEAN :
        /\ nHistoryCalls < MaxMethodCalls
        /\ IF ~selected
           THEN MethodDidNothing("onBufferCreate", "undefined")
           ELSE /\ RecordOperation
                /\ methodCall' = [fn |-> "onBufferCreate",
                                  layerId |-> "buffers",
                                  featureId |-> "undefined",
                                  undoBefore |-> undoStack,
                                  result |-> "not called",
                                  recorded |-> "create"]
                /\ UNCHANGED <<lvars, objects>>
        /\ UNCHANGED notMethods

\* undo of the history shortcuts, lines 98-101; handleUndo only logs
MethodUndo ==
    /\ nHistoryCalls < MaxMethodCalls
    /\ UndoStep
    /\ methodCall' = [fn |-> "undo"]
    /\ UNCHANGED <<lvars, objects>>
    /\ UNCHANGED notMethods

\* redo of the history shortcuts, lines 98-101; handleRedo only logs
MethodRedo ==
    /\ nHistoryCalls < MaxMethodCalls
    /\ RedoStep
    /\ methodCall' = [fn |-> "redo"]
    /\ UNCHANGED <<lvars, objects>>
    /\ UNCHANGED notMethods

\* onLayerToggle(layerId, visible) of the layer control, lines 251-253
MethodLayerToggle ==
    \E layerId \in LayerIdArgs, visible \in BOOLEAN :
        LET done == SetLayerVisibilityOn(mapState.layers, layerId, visible)
        IN  /\ mapState' = [layers |-> done.layers]
            /\ methodCall' = [fn |-> "onLayerToggle", layerId |-> layerId,
                              result |-> done.result]
            /\ UNCHANGED <<nUuids, nLayerCalls, layerCall, givenIds>>
            /\ UNCHANGED <<hvars, objects>>
            /\ UNCHANGED notMethods

\* onLayerStyle(layerId, style) of the layer control, lines 254-256
MethodLayerStyle ==
    \E layerId \in LayerIdArgs :
        LET done == SetLayerStyleOn(mapState.layers, layerId, "red")
        IN  /\ mapState' = [layers |-> done.layers]
            /\ methodCall' = [fn |-> "onLayerStyle", layerId |-> layerId,
                              result |-> done.result]
            /\ UNCHANGED <<nUuids, nLayerCalls, layerCall, givenIds>>
            /\ UNCHANGED <<hvars, objects>>
            /\ UNCHANGED notMethods

MethodsNext ==
    \/ MethodAddFeature
    \/ MethodModifyFeature
    \/ MethodRemoveFeature
    \/ MethodStyleFeature
    \/ MethodBufferCreate
    \/ MethodUndo
    \/ MethodRedo
    \/ MethodLayerToggle
    \/ MethodLayerStyle
    \/ Render

(***************************************************************************)
(* ClusterService                                                          *)
(*                                                                         *)
(* The index is the Supercluster object: load replaces the points it       *)
(* holds, and getClusters at zoom 0 over the whole world returns a cluster *)
(* for every minPoints or more points that lie within radius pixels of     *)
(* each other on the map of extent pixels, and the other points as they    *)
(* are; before the first load it has no points to search and throws.       *)
(* The points of the model lie within the radius of every zoom up to 2 or  *)
(* farther apart than the radius of zoom 0, so the passes of the zooms 16  *)
(* to 1 merge nothing that the pass of zoom 0 would keep apart.            *)
(***************************************************************************)
\* The features given to loadFeatures: a line, a polygon with the centroid
\* of the line, a line 9 pixels from them at zoom 0, a line a third of the
\* world away, and a point.
ClusterFeatures ==
    {[id |-> "line",
      geometry |-> [type |-> "LineString",
                    coordinates |-> <<<<0, 0>>, <<2, 2>>>>]],
     [id |-> "near",
      geometry |-> [type |-> "LineString",
                    coordinates |-> <<<<4, 4>>, <<6, 8>>>>]],
     [id |-> "far",
      geometry |-> [type |-> "LineString",
                    coordinates |-> <<<<100, 0>>, <<120, 0>>>>]],
     [id |-> "ring",
      geometry |-> [type |-> "Polygon",
                    coordinates |-> << <<<<0, 0>>, <<2, 0>>, <<2, 2>>,
                                         <<0, 2>>>> >>]],
     [id |-> "point",
      geometry |-> [type |-> "Point", coordinates |-> <<1, 1>>]]}

ClusterLoads == UNION {[1..n -> ClusterFeatures] : n \in 0..MaxLoad}

\* isEditableFeature(feature)
IsEditableFeature(feature) ==
    feature.geometry.type \in {"LineString", "Polygon"}

\* getFeatureCoordinates(feature)
GetFeatureCoordinates(feature) ==
    IF feature.geometry.type = "LineString"
    THEN feature.geometry.coordinates
    ELSE feature.geometry.coordinates[1]

\* coords.reduce((acc, coord) => [acc[0] + coord[0], acc[1] + coord[1]],
\* [0, 0]), over the coordinates from index k
RECURSIVE SumCoords(_, _)
SumCoords(coords, k) ==
    IF k > Len(coords) THEN <<0, 0>>
    ELSE LET rest == SumCoords(coords, k + 1)
         IN  <<coords[k][1] + rest[1], coords[k][2] + rest[2]>>

\* featureToPoint(feature), lines 69-94, for a feature that is editable
FeatureToPoint(feature) ==
    LET coords == GetFeatureCoordinates(feature)
        centroid == SumCoords(coords, 1)
    IN  [coordinates |-> <<centroid[1] \div Len(coords),
                           centroid[2] \div Len(coords)>>,
         originalFeature |-> feature.id]

\* loadFeatures(features), lines 96-112: what it leaves and whether it
\* throws
LoadFeaturesOn(features, stored, index) ==
    IF \E k \in 1..Len(features) : ~IsEditableFeature(features[k])
    THEN [features |-> features, index |-> index, threw |-> TRUE]
    ELSE [features |-> features,
          index |-> [loaded |-> TRUE,
                     points |-> [k \in 1..Len(features) |->
                                    FeatureToPoint(features[k])],
                     from |-> features],
          threw |-> FALSE]

\* The longitude on the map of zoom 0, in tenths of a pixel:
\* extent * (lng / 360 + 0.5)
LngX(lng) == (lng * 10 * Extent) \div 360 + 5 * Extent

\* The latitude on the map of zoom 0, in tenths of a pixel:
\* extent * (0.5 - 0.25 * ln((1 + sin lat) / (1 - sin lat)) / pi), for the
\* latitudes of the centroids of ClusterFeatures
LatY(lat) ==
    CASE lat = 0 -> 2560
      [] lat = 1 -> 2545
      [] lat = 6 -> 2474

\* whether two points are within radius pixels of each other at zoom 0
WithinRadius(p, q) ==
    LET dx == LngX(p.coordinates[1]) - LngX(q.coordinates[1])
        dy == LatY(p.coordinates[2]) - LatY(q.coordinates[2])
    IN  dx * dx + dy * dy <= (10 * Radius) * (10 * Radius)

\* One pass of clustering over the points from index i: a point not yet
\* taken that has, with its neighbours not yet taken, minPoints points or
\* more becomes a cluster with them; the number of clusters made
RECURSIVE ClusterPass(_, _, _)
ClusterPass(points, i, visited) ==
    IF i > Len(points) THEN 0
    ELSE IF i \in visited THEN ClusterPass(points, i + 1, visited)
    ELSE LET neighbours == {k \in (1..Len(points)) \ (visited \cup {i}) :
                               WithinRadius(points[i], points[k])}
         IN  IF 1 + Cardinality(neighbours) >= MinPoints
             THEN 1 + ClusterPass(points, i + 1,
                                  visited \cup {i} \cup neighbours)
             ELSE ClusterPass(points, i + 1, visited \cup {i})

\* the number of clusters among getClusters([-180, -90, 180, 90], 0)
ClusterCount(index) == ClusterPass(index.points, 1, {})

\* getClusterStats(), lines 225-255; averagePointsPerCluster is written as
\* its numerator and its denominator
GetClusterStatsOn(stored, index) ==
    IF ~index.loaded
    THEN [threw |-> TRUE, totalFeatures |-> 0, totalClusters |-> 0,
          averagePointsPerCluster |-> <<0, 1>>]
    ELSE LET clusterCount == ClusterCount(index)
         IN  [threw |-> FALSE,
              totalFeatures |-> Len(stored),
              totalClusters |-> clusterCount,
              averagePointsPerCluster |->
                  <<Len(stored), IF clusterCount = 0 THEN 1 ELSE clusterCount>>]

\* new ClusterService(options)
UInit ==
    /\ clusterFeatures = <<>>
    /\ clusterIndex = [loaded |-> FALSE, points |-> <<>>, from |-> <<>>]
    /\ clusterCall = [fn |-> "none"]

LoadFeatures ==
    \E features \in ClusterLoads :
        LET done == LoadFeaturesOn(features, clusterFeatures, clusterIndex)
        IN  /\ clusterFeatures' = done.features
            /\ clusterIndex' = done.index
            /\ clusterCall' = [fn |-> "loadFeatures", given |-> features,
                               features |-> clusterFeatures,
                               index |-> clusterIndex, threw |-> done.threw]
            /\ UNCHANGED notCluster

GetClusterStats ==
    /\ clusterCall' = [fn |-> "getClusterStats",
                       features |-> clusterFeatures, index |-> clusterIndex,
                       returned |-> GetClusterStatsOn(clusterFeatures,
                                                      clusterIndex)]
    /\ UNCHANGED <<clusterFeatures, clusterIndex>>
    /\ UNCHANGED notCluster

ClusterNext ==
    \/ LoadFeatures
    \/ GetClusterStats

(***************************************************************************)
(* Specifications                                                          *)
(***************************************************************************)
\* the state of a service the specification at hand does not exercise
TUnused ==
    /\ config = [maxConcurrent |-> 1, maxPerSecond |-> 2,
                 maxBurstSize |-> 2, cooldownPeriod |-> 2]
    /\ TInit

BUnused == bconfig = [maxSize |-> 2, retryAttempts |-> 1] /\ BInit

CUnused == cacheConfig = [maxSize |-> 1, defaultTTL |-> 2] /\ CInit

KUnused == keyType = "f" /\ paramsA = <<>> /\ paramsB = <<>> /\ KInit

HUnused == maxHistorySize = 1 /\ HInit

PUnused ==
    /\ directives = [n \in 1..2 |-> [name |-> "zoom_to", args |-> <<>>]]
    /\ text = Written(directives[1]) \o <<" ">> \o Written(directives[2])
    /\ PInit

EUnused == calls = <<>> /\ returned = <<>>

LUnused == LInit

OUnused == OInit

SUnused == currentState = [zoom |-> 2] /\ localStorage = "null" /\ SInit

WUnused == poolSize = 1 /\ WInit

GUnused == GInit

MUnused == MInit

UUnused == UInit

\* ThrottleManager alone
ThrottleInit == TInit /\ BUnused /\ CUnused /\ KUnused /\ HUnused /\ PUnused
    /\ EUnused
    /\ LUnused
    /\ OUnused
    /\ SUnused
    /\ WUnused
    /\ GUnused
    /\ MUnused
    /\ UUnused

ThrottleSpec == ThrottleInit /\ [][ThrottleNext]_vars

\* A manager that is never disposed, with the scheduling the event loop
\* guarantees: a pending continuation runs, a due timeout fires, the clock
\* advances, and (the claims' proviso) every started operation settles.
ThrottleLiveNext ==
    \/ Execute
    \/ Resume
    \/ \E c \in Callers : Complete(c)
    \/ CooldownTimer
    \/ Tick

ThrottleLiveSpec ==
    /\ ThrottleInit
    /\ [][ThrottleLiveNext]_vars
    /\ WF_vars(Resume)
    /\ WF_vars(CooldownTimer)
    /\ WF_vars(Tick)
    /\ \A c \in Callers : WF_vars(Complete(c))

\* BatchProcessor alone
BatchInit == BInit /\ TUnused /\ CUnused /\ KUnused /\ HUnused /\ PUnused
    /\ EUnused
    /\ LUnused
    /\ OUnused
    /\ SUnused
    /\ WUnused
    /\ GUnused
    /\ MUnused
    /\ UUnused

BatchSpec == BatchInit /\ [][BatchNext]_vars

\* A processor that is never disposed, with the scheduling the event loop
\* guarantees: a pending timeout fires, and (the claims' proviso) every call
\* of the processor settles.
BatchLiveSpec ==
    /\ BatchInit
    /\ [][BatchLiveNext]_vars
    /\ WF_vars(DelayTimer)
    /\ \A f \in Flushes : WF_vars(RetryTimer(f))
    /\ \A f \in Flushes : WF_vars(ProcessorResolves(f) \/ ProcessorRejects(f))

\* CacheService alone
CacheInit == CInit /\ TUnused /\ BUnused /\ KUnused /\ HUnused /\ PUnused
    /\ EUnused
    /\ LUnused
    /\ OUnused
    /\ SUnused
    /\ WUnused
    /\ GUnused
    /\ MUnused
    /\ UUnused

CacheSpec == CacheInit /\ [][CacheNext]_vars

(***************************************************************************)
(* Properties of CacheService                                              *)
(***************************************************************************)
\* C13: a get that finds a stored entry with now - timestamp > ttl returns
\* null and leaves the cache without that key; a get that returns a value
\* returns the value of a stored entry that has not expired.
C13_ExpiredNeverReturned ==
    lastOp.op = "get" =>
        /\ (lastOp.found # <<>>
               /\ lastOp.at - lastOp.found[1].timestamp > lastOp.found[1].ttl)
            => lastOp.result = "null" /\ ~Has(cache, lastOp.key)
        /\ lastOp.result # "null"
            => /\ lastOp.found # <<>>
               /\ lastOp.result = lastOp.found[1].value
               /\ lastOp.at - lastOp.found[1].timestamp <= lastOp.found[1].ttl

C13_Witness ==
    /\ lastOp.op = "get"
    /\ lastOp.found # <<>>
    /\ lastOp.at - lastOp.found[1].timestamp > lastOp.found[1].ttl
    /\ lastOp.result = "null"
    /\ ~Has(cache, lastOp.key)

\* C14: a cleanup pass that finds more than maxSize unexpired entries keeps
\* maxSize of them, and none of the entries it removes was accessed later
\* than one it keeps.
C14_LruEviction ==
    Len(lastOp.found) > cacheConfig.maxSize =>
        /\ Len(lastOp.kept) = cacheConfig.maxSize
        /\ SeqToSet(lastOp.kept) \subseteq SeqToSet(lastOp.found)
        /\ \A e \in SeqToSet(lastOp.found) \ SeqToSet(lastOp.kept) :
              \A f \in SeqToSet(lastOp.kept) : e.lastAccess <= f.lastAccess

\* a pass that kept an entry inserted before one it removed, because the
\* kept one was read later
C14_Witness ==
    /\ Len(lastOp.found) > cacheConfig.maxSize
    /\ \E i \in 1..Len(lastOp.found) : \E j \in 1..Len(lastOp.found) :
          /\ i < j
          /\ lastOp.found[i] \in SeqToSet(lastOp.kept)
          /\ lastOp.found[j] \notin SeqToSet(lastOp.kept)
          /\ lastOp.found[j].lastAccess < lastOp.found[i].lastAccess
          /\ lastOp.found[i].timestamp < lastOp.found[i].lastAccess

\* generateKey alone
KeyInit == KInit /\ TUnused /\ BUnused /\ CUnused /\ HUnused /\ PUnused
    /\ EUnused
    /\ LUnused
    /\ OUnused
    /\ SUnused
    /\ WUnused
    /\ GUnused
    /\ MUnused
    /\ UUnused

KeySpec == KeyInit /\ [][KeyNext]_vars

(***************************************************************************)
(* Properties of generateKey                                               *)
(***************************************************************************)
\* C15: generateKey returns the same key for one type and two params
\* objects that hold the same name/value pairs in different orders.
C15_KeyOrderIndependent ==
    (keyA # "none" /\ keyB # "none") => keyA = keyB

C15_Witness ==
    /\ keyA # "none"
    /\ keyB = keyA
    /\ Len(paramsA) = MaxParams
    /\ paramsA # paramsB
    /\ paramsB # SortEntries(paramsB)

\* useMapHistory alone
HistoryInit == HInit /\ TUnused /\ BUnused /\ CUnused /\ KUnused /\ PUnused
    /\ EUnused
    /\ LUnused
    /\ OUnused
    /\ SUnused
    /\ WUnused
    /\ GUnused
    /\ MUnused
    /\ UUnused

HistorySpec == HistoryInit /\ [][HistoryNext]_vars

(***************************************************************************)
(* Properties of useMapHistory                                             *)
(***************************************************************************)
\* C16: the undo stack and the redo stack each hold at most maxHistorySize
\* operations, and a push on a full undo stack removes its oldest operation.
C16_HistoryBounded ==
    /\ Len(undoStack) <= maxHistorySize
    /\ Len(redoStack) <= maxHistorySize
    /\ (lastCall.fn = "push" /\ Len(lastCall.undoBefore) >= maxHistorySize)
        => undoStack = Append(Tail(lastCall.undoBefore), lastCall.operation)

\* C17: a call of pushOperation leaves the redo stack empty.
C17_PushClearsRedo ==
    lastCall.fn = "push" => redoStack = <<>>

C17_Witness ==
    /\ lastCall.fn = "push"
    /\ lastCall.redoBefore # <<>>
    /\ redoStack = <<>>

\* C18: undo on a non-empty undo stack removes its top operation, puts it on
\* top of the redo stack and invokes onUndo with it; redo does the reverse
\* with onRedo; undo on an empty undo stack and redo on an empty redo stack
\* change neither stack and invoke no callback.  A stack counts as non-empty
\* when both the state and the render hold it non-empty, and as empty when
\* the state is empty.
C18_UndoRedoMoveTop ==
    /\ (lastCall.fn = "undo" /\ lastCall.undoBefore # <<>>
          /\ lastCall.undoShown # <<>>)
        => /\ undoStack = Front(lastCall.undoBefore)
           /\ redoStack = Append(lastCall.redoBefore,
                                 lastCall.undoBefore[Len(lastCall.undoBefore)])
           /\ lastCall.callback = "onUndo"
           /\ lastCall.arg = lastCall.undoBefore[Len(lastCall.undoBefore)]
    /\ (lastCall.fn = "redo" /\ lastCall.redoBefore # <<>>
          /\ lastCall.redoShown # <<>>)
        => /\ redoStack = Front(lastCall.redoBefore)
           /\ undoStack = Append(lastCall.undoBefore,
                                 lastCall.redoBefore[Len(lastCall.redoBefore)])
           /\ lastCall.callback = "onRedo"
           /\ lastCall.arg = lastCall.redoBefore[Len(lastCall.redoBefore)]
    /\ (lastCall.fn = "undo" /\ lastCall.undoBefore = <<>>)
        => /\ undoStack = <<>>
           /\ redoStack = lastCall.redoBefore
           /\ lastCall.callback = "none"
    /\ (lastCall.fn = "redo" /\ lastCall.redoBefore = <<>>)
        => /\ redoStack = <<>>
           /\ undoStack = lastCall.undoBefore
           /\ lastCall.callback = "none"

\* extractMapCommands alone
ParserInit == PInit /\ TUnused /\ BUnused /\ CUnused /\ KUnused /\ HUnused
    /\ EUnused
    /\ LUnused
    /\ OUnused
    /\ SUnused
    /\ WUnused
    /\ GUnused
    /\ MUnused
    /\ UUnused

ParserSpec == ParserInit /\ [][ParserNext]_vars

\* extractMapCommands on valid directives
RoundTripInit == RInit /\ TUnused /\ BUnused /\ CUnused /\ KUnused /\ HUnused
    /\ EUnused
    /\ LUnused
    /\ OUnused
    /\ SUnused
    /\ WUnused
    /\ GUnused
    /\ MUnused
    /\ UUnused

RoundTripSpec == RoundTripInit /\ [][ParserNext]_vars

(***************************************************************************)
(* Properties of commandParser                                             *)
(***************************************************************************)
\* the commands the directives of recognized name convert to, one by one
\* and in the order they were written
CommandsWritten ==
    LET known == SelectSeq(directives, LAMBDA d : d.name \in CommandTypes)
        each == [n \in 1..Len(known) |->
                    ConvertToMapCommand([type |-> known[n].name,
                                         args |-> known[n].args])]
    IN  SelectSeq(each, LAMBDA cmd : cmd # NullCommand)

\* C19: extractMapCommands returns the commands of the directives of the
\* text from left to right, and a bracketed span whose name is none of the
\* seven command types contributes no command.
C19_OrderedKnownOnly ==
    extracted =>
        /\ commands = CommandsWritten
        /\ \A n \in 1..Len(commands) : commands[n].type \in CommandTypes

\* two commands of different types, in the order of their directives, from
\* a text that holds a directive of unknown name between them
C19_Witness ==
    /\ extracted
    /\ Len(commands) = 2
    /\ commands[1].type = directives[1].name
    /\ commands[2].type = directives[2].name
    /\ commands[1].type # commands[2].type
    /\ \E n \in 1..Len(text) : text[n] = "fly_to"
    /\ \A n \in 1..2 : directives[n].name # "fly_to"
    /\ \A n \in 1..2 : \A m \in 1..Len(commands[n].parameters) :
          commands[n].parameters[m] \notin {"NaN", "undefined"}

\* the positions of the arguments of a command that are parsed as numbers
NumericArgs(name) ==
    CASE name = "zoom_to" -> {1, 2, 3}
      [] name = "buffer" -> {2}
      [] OTHER -> {}

\* the positions of the arguments of a command that are parsed as JSON
JsonArgs(name) ==
    CASE name \in {"add_feature", "buffer"} -> {1}
      [] name \in {"modify_feature", "style_feature"} -> {2}
      [] name = "measure" -> 2..MaxArgs
      [] OTHER -> {}

IsNumber(s) == s = "51.5"

IsJson(s) == s \in {"51.5", "{\"a\":1}"}

\* a directive with an argument that is given and fails its parsing
Fails(d) ==
    \E n \in 1..Len(d.args) :
        \/ n \in NumericArgs(d.name) /\ ~IsNumber(d.args[n])
        \/ n \in JsonArgs(d.name) /\ ~IsJson(d.args[n])

\* a directive of a command type none of whose arguments fails
Sound(d) == d.name \in CommandTypes /\ ~Fails(d)

\* C20: a directive with an argument that fails JSON or numeric parsing is
\* not returned as a command, and a directive after it, well-formed and with
\* every argument given, is still returned.
C20_FailurePolicy ==
    extracted =>
        /\ Len(commands) <= Cardinality({n \in 1..2 : Sound(directives[n])})
        /\ (~Sound(directives[1]) /\ Sound(directives[2])
              /\ Len(directives[2].args) = MaxArgs)
            => commands = <<ConvertToMapCommand(
                              [type |-> directives[2].name,
                               args |-> directives[2].args])>>

\* C21: a directive of a command type written with valid arguments is parsed
\* back into one command of that type with the values of these arguments.
C21_RoundTrip ==
    extracted =>
        commands = <<ConvertToMapCommand([type |-> directives[1].name,
                                          args |-> directives[1].args])>>

\* MapService.executeMapCommands alone
ExecutorInit == EInit /\ TUnused /\ BUnused /\ CUnused /\ KUnused /\ HUnused
    /\ LUnused
    /\ OUnused
    /\ SUnused
    /\ WUnused
    /\ GUnused
    /\ MUnused
    /\ UUnused

ExecutorSpec == ExecutorInit /\ [][ExecutorNext]_vars

\* LayerService alone
LayerInit == LInit /\ TUnused /\ BUnused /\ CUnused /\ KUnused /\ HUnused
    /\ PUnused /\ EUnused
    /\ OUnused
    /\ SUnused
    /\ WUnused
    /\ GUnused
    /\ MUnused
    /\ UUnused

LayerSpec == LayerInit /\ [][LayerNext]_vars

\* executeOperation over a ThrottleManager
OperationInit == TInit /\ OInit /\ BUnused /\ CUnused /\ KUnused /\ HUnused
    /\ PUnused /\ EUnused /\ LUnused
    /\ SUnused
    /\ WUnused
    /\ GUnused
    /\ MUnused
    /\ UUnused

OperationSpec == OperationInit /\ [][OperationNext]_vars

\* executeOperation with the scheduling the event loop guarantees: a
\* pending continuation runs, the cooldown timeout fires when due, the
\* clock advances and every started operation settles.  The timeout of a
\* call is the caller's and may never fire.
OperationLiveSpec ==
    /\ OperationInit
    /\ [][OperationNext]_vars
    /\ WF_vars(Resume)
    /\ WF_vars(CooldownTimer)
    /\ WF_vars(Tick)
    /\ \A c \in Callers : WF_vars(Complete(c))
    /\ \A c \in Callers : WF_vars(OperationSettled(c))

\* the auto-save of useMapPersistence alone
PersistenceInit == SInit /\ TUnused /\ BUnused /\ CUnused /\ KUnused /\ HUnused
    /\ PUnused /\ EUnused /\ LUnused /\ OUnused
    /\ SUnused
    /\ WUnused
    /\ GUnused
    /\ MUnused
    /\ UUnused

PersistenceSpec == PersistenceInit /\ [][PersistenceNext]_vars

\* WorkerPool alone
PoolInit == WInit /\ TUnused /\ BUnused /\ CUnused /\ KUnused /\ HUnused
    /\ PUnused /\ EUnused /\ LUnused /\ OUnused /\ SUnused
    /\ GUnused
    /\ MUnused
    /\ UUnused

PoolSpec == PoolInit /\ [][PoolNext]_vars

(***************************************************************************)
(* Properties of MapService                                                *)
(***************************************************************************)
\* the calls made for the command of index k
CallsFor(k) == SelectSeq(calls, LAMBDA c : c.command = k)

\* C22: whatever the methods of mapMethods throw, executeMapCommands returns
\* and has called a method for every command of the text, in their order.
C22_ErrorIsolation ==
    extracted =>
        /\ returned = text
        /\ \A k \in 1..Len(commands) : CallsFor(k) # <<>>
        /\ \A n \in 1..Len(calls) : \A m \in 1..Len(calls) :
              n < m => calls[n].command <= calls[m].command

\* the method of the first command threw and the second command was run
C22_Witness ==
    /\ extracted
    /\ Len(commands) = 2
    /\ CallsFor(1)[Len(CallsFor(1))].threw
    /\ CallsFor(2) # <<>>
    /\ returned = text

\* C23: for a buffer command, buffer is called with the feature, distance
\* and units; when it returns, addFeature is called once, next, with the
\* value returned and "buffers"; when it throws, addFeature is not called.
C23_BufferChaining ==
    \A k \in 1..Len(commands) :
        commands[k].type = "buffer" =>
            LET made == CallsFor(k)
            IN  /\ made # <<>>
                /\ made[1].method = "buffer"
                /\ made[1].args = commands[k].parameters
                /\ IF made[1].threw
                   THEN Len(made) = 1
                   ELSE /\ Len(made) = 2
                        /\ made[2].method = "addFeature"
                        /\ made[2].args = <<made[1].value, "buffers">>

\* a buffer command whose feature is not the one buffer returned, chained
C23_Witness ==
    \E k \in 1..Len(commands) :
        /\ commands[k].type = "buffer"
        /\ Len(CallsFor(k)) = 2
        /\ CallsFor(k)[2].args[1] = CallsFor(k)[1].value
        /\ CallsFor(k)[2].args[1] # commands[k].parameters[1]

\* the capability methods of a command type
CapabilitiesOf(type) ==
    CASE type = "zoom_to" -> {"zoomTo"}
      [] type = "add_feature" -> {"addFeature"}
      [] type = "modify_feature" -> {"modifyFeature"}
      [] type = "remove_feature" -> {"removeFeature"}
      [] type = "style_feature" -> {"styleFeature"}
      [] type = "measure" -> {"measure"}
      [] type = "buffer" -> {"buffer", "addFeature"}

\* C24: every call made is a call of the capability method of the type of
\* its command (or addFeature for buffer), the text is returned unchanged,
\* and the scenario's text makes the one call zoomTo([51.5007, -0.1246], 15).
C24_OnlyOwnCapability ==
    extracted =>
        /\ returned = text
        /\ \A n \in 1..Len(calls) :
              calls[n].method \in CapabilitiesOf(commands[calls[n].command].type)
        /\ text = BigBenText =>
              /\ Len(calls) = 1
              /\ calls[1].method = "zoomTo"
              /\ calls[1].args = <<"51.5007", "-0.1246", "15">>

C24_Witness ==
    /\ extracted
    /\ text = BigBenText
    /\ Len(calls) = 1
    /\ calls[1].method = "zoomTo"

(***************************************************************************)
(* Properties of BatchProcessor                                            *)
(***************************************************************************)
Invoked == UNION {SeqToSet(invocations[k]) : k \in 1..Len(invocations)}

\* C8: when maxSize items were added in one synchronous turn to a processor
\* that was idle, the processor was called exactly once in that turn, with
\* exactly these items in the order of the adds; with fewer items added it
\* was not called in that turn.
C8_BatchGrouping ==
    turn.idle =>
        /\ Len(turn.added) = bconfig.maxSize => turn.invoked = <<turn.added>>
        /\ Len(turn.added) < bconfig.maxSize => turn.invoked = <<>>

C8_Witness ==
    /\ turn.idle
    /\ Len(turn.added) = bconfig.maxSize
    /\ bconfig.maxSize = 3
    /\ Len(invocations) > 1

\* C9: every item that sits in the buffer while a batch is being processed
\* (it was added mid-flush) is eventually passed to the processor and its
\* promise settled, without further adds.  The last disjunct sets aside the
\* behaviours that use up the adds of the model.
C9_MidFlushItemSettled ==
    \A i \in Items :
        (processing /\ i \in SeqToSet(batch))
            ~> \/ i \in Invoked /\ status[i] \in {"resolved", "rejected"}
               \/ nAdded = MaxItems

\* C10: every item added to the buffer is eventually passed to the processor,
\* without further adds.  The last disjunct sets aside the behaviours that
\* use up the adds of the model.
C10_AddedItemFlushed ==
    \A i \in Items :
        (~processing /\ i \in SeqToSet(batch))
            ~> (i \in Invoked \/ nAdded = MaxItems)

\* the calls of the processor that were given item i: the attempts of its batch
CallsOf(i) == {k \in 1..Len(invocations) : i \in SeqToSet(invocations[k])}

AllFailed(K) == \A k \in K : outcomes[k].state = "failed"

\* C11: the processor is called at most retryAttempts times for one batch,
\* each further call only after the previous one failed; once retryAttempts
\* calls have failed every promise of the batch is rejected, a promise is
\* rejected in no other case, and once a call has succeeded every promise of
\* the batch is resolved.
C11_BoundedRetry ==
    \A i \in Items :
        LET K == CallsOf(i)
        IN  /\ Cardinality(K) <= bconfig.retryAttempts
            /\ \A k \in K : \A j \in K : j < k => outcomes[j].state = "failed"
            /\ \A k \in K : \A j \in K : invocations[j] = invocations[k]
            /\ (Cardinality(K) = bconfig.retryAttempts /\ AllFailed(K))
                  <=> status[i] = "rejected"
            /\ (\E k \in K : outcomes[k].state = "ok") <=> status[i] = "resolved"

C11_Witness ==
    \E i \in Items :
        /\ bconfig.retryAttempts = 2
        /\ Cardinality(CallsOf(i)) = 2
        /\ status[i] = "rejected"
        /\ \E j \in Items : Cardinality(CallsOf(j)) = 2 /\ status[j] = "resolved"

\* C12: the promise of the n-th item of a batch is resolved with the n-th
\* element of the array the processor returned for that batch, and the
\* promises of a batch are resolved in the order of its items.
C12_ResolvedByIndex ==
    \A k \in 1..Len(invocations) :
        outcomes[k].state = "ok" =>
            \A n \in 1..Len(invocations[k]) :
                /\ status[invocations[k][n]] = "resolved"
                /\ value[invocations[k][n]] = outcomes[k].results[n]
                /\ \A m \in 1..Len(invocations[k]) :
                      n < m => IndexOf(resolveOrder, invocations[k][n])
                                 < IndexOf(resolveOrder, invocations[k][m])

C12_Witness ==
    \E k \in 1..Len(invocations) :
        /\ outcomes[k].state = "ok"
        /\ Len(invocations[k]) = 3
        /\ outcomes[k].results[1] /= outcomes[k].results[3]

(***************************************************************************)
(* Properties of ThrottleManager                                           *)
(***************************************************************************)
Running == {c \in Callers : pc[c] = "running"}

Settled == {c \in Callers : pc[c] = "settled"}

Started == SeqToSet(startOrder)

\* The starts of the last 1000 ms.  Every start pushes its time on
\* lastExecutions, and as long as dispose has not emptied it only entries
\* older than 1000 ms are ever removed from it.
RecentStarts == FilterWindow(lastExecutions)

\* C1: on a manager that was never disposed, the number of operations that
\* have started and not yet settled is at most maxConcurrent.
C1_ConcurrencyBounded ==
    nDisposed = 0 => Cardinality(Running) <= config.maxConcurrent

\* C2: every caller that execute has queued is eventually resumed and its
\* operation started (no dispose, every started operation settles, time
\* passes and due timeouts fire).  The second disjunct sets aside the
\* behaviours that use up the calls of the model, so that a caller this
\* formula finds stuck is stuck while execute can still be called.
C2_QueuedEventuallyStarted ==
    \A c \in Callers :
        (pc[c] = "queued") ~> (pc[c] = "running" \/ nCalls = MaxCalls)

\* C3: with maxPerSecond > maxConcurrent, after maxConcurrent+1 operations
\* were submitted to a fresh manager and while none of them has finished,
\* exactly maxConcurrent operations are active and exactly one caller, the
\* last one, is queued.
C3_Precondition ==
    /\ config.maxPerSecond > config.maxConcurrent
    /\ nDisposed = 0
    /\ nCalls = config.maxConcurrent + 1
    /\ Settled = {}

C3_ThrottleCeiling ==
    C3_Precondition =>
        /\ active = config.maxConcurrent
        /\ Running = 1..config.maxConcurrent
        /\ queue = <<config.maxConcurrent + 1>>
        /\ woken = <<>>

C3_Witness ==
    C3_Precondition /\ config.maxConcurrent = 2 /\ Len(queue) = 1

\* C4: of two callers that were both queued, the one enqueued later never has
\* its operation started unless the one enqueued first was started before it
\* (a caller dropped by dispose is never started and is outside the order).
C4_FifoDrain ==
    \A i, j \in 1..Len(enqOrder) :
        (i < j /\ enqOrder[j] \in Started /\ enqOrder[i] \notin abandoned) =>
            /\ enqOrder[i] \in Started
            /\ IndexOf(startOrder, enqOrder[i]) < IndexOf(startOrder, enqOrder[j])

C4_Witness ==
    \E i, j \in 1..Len(enqOrder) :
        i < j /\ enqOrder[i] \in Started /\ enqOrder[j] \in Started

\* C5: on a manager that was never disposed, the number of operations started
\* within the last 1000 ms is at most maxPerSecond.
C5_RateBounded ==
    nDisposed = 0 => Len(RecentStarts) <= config.maxPerSecond

\* C6: while the cooling flag is set no operation starts.
C6_NoStartWhileCooling ==
    [][cooldown => startOrder' = startOrder]_vars

\* C7: dispose empties the queue and resets active, the execution window and
\* the cooling flag, and a caller that was queued at that moment stays
\* suspended for ever: it is never woken, started or settled.
C7_DisposeAbandons ==
    [][/\ nDisposed' /= nDisposed =>
            /\ queue' = <<>>
            /\ active' = 0
            /\ lastExecutions' = <<>>
            /\ cooldown' = FALSE
            /\ SeqToSet(queue) \subseteq abandoned'
       /\ \A c \in abandoned' :
            /\ pc'[c] = "queued"
            /\ c \notin SeqToSet(queue') \cup SeqToSet(woken')]_vars

C7_Witness ==
    /\ abandoned /= {}
    /\ \E c \in Callers : \E a \in abandoned : c > a /\ pc[c] = "settled"

(***************************************************************************)
(* Properties of LayerService                                              *)
(***************************************************************************)
\* C25: every feature of the store has an id, neither absent nor empty; a
\* feature given to addFeatureToLayer without an id was stored under an id
\* that no feature of the store bore before the call; and the ids under
\* which any two features given without an id were stored are different.
C25_FeaturesHaveIds ==
    /\ \A p \in FeaturePositions(mapState.layers) :
          ~IsFalsy(FeatureAt(mapState.layers, p).id)
    /\ \A i, j \in 1..Len(givenIds) : givenIds[i] = givenIds[j] => i = j
    /\ (/\ layerCall.op = "addFeatureToLayer"
        /\ layerCall.result = "true"
        /\ IsFalsy(layerCall.featureId))
        => /\ givenIds # <<>>
           /\ givenIds[Len(givenIds)] \notin FeatureIds(layerCall.before)
           /\ givenIds[Len(givenIds)] \in FeatureIds(mapState.layers)

\* two features given without an id, one with no id member and one with an
\* empty id, are both in the store
C25_Witness ==
    /\ Len(givenIds) = 2
    /\ layerCall.op = "addFeatureToLayer"
    /\ layerCall.featureId = ""
    /\ \A i \in 1..2 : givenIds[i] \in FeatureIds(mapState.layers)
    /\ Cardinality(FeaturePositions(mapState.layers)) = 2

\* C26: no two features of the store, in whatever layers, have the same id,
\* so that getFeatureById(id) is the only feature of this id.
C26_FeatureIdsUnique ==
    \A p, q \in FeaturePositions(mapState.layers) :
        FeatureAt(mapState.layers, p).id = FeatureAt(mapState.layers, q).id
            => p = q

\* the features of the layers of this id
FeatureIdsOf(groups, layerId) ==
    {FeatureAt(groups, p).id :
        p \in {q \in FeaturePositions(groups) :
                  groups[q[1]].layers[q[2]].id = layerId}}

\* C27: createLayer with the id of no group returns null; addFeatureToLayer,
\* setLayerVisibility and setLayerStyle with the id of no layer return
\* false; removeFeature and modifyFeature with the id of no layer, or with
\* an id no feature of that layer has, return false; and each of these
\* calls leaves the groups, layers and features as it found them.
C27_LookupErrorsAreValues ==
    LET unknownGroup ==
            /\ layerCall.op = "createLayer"
            /\ layerCall.groupId \notin GroupIds(layerCall.before)
        unknownLayer ==
            /\ layerCall.op \in {"addFeatureToLayer", "removeFeature",
                                 "modifyFeature", "setLayerVisibility",
                                 "setLayerStyle"}
            /\ layerCall.layerId \notin LayerIds(layerCall.before)
        unknownFeature ==
            /\ layerCall.op \in {"removeFeature", "modifyFeature"}
            /\ layerCall.featureId
                  \notin FeatureIdsOf(layerCall.before, layerCall.layerId)
    IN  /\ unknownGroup
            => layerCall.result = "null" /\ mapState.layers = layerCall.before
        /\ (unknownLayer \/ unknownFeature)
            => layerCall.result = "false" /\ mapState.layers = layerCall.before

\* removeFeature on a layer that holds features, with an id none of them
\* has
C27_Witness ==
    /\ layerCall.op = "removeFeature"
    /\ layerCall.layerId \in LayerIds(layerCall.before)
    /\ FeatureIdsOf(layerCall.before, layerCall.layerId) # {}
    /\ layerCall.featureId
          \notin FeatureIdsOf(layerCall.before, layerCall.layerId)
    /\ layerCall.result = "false"

(***************************************************************************)
(* Properties of useMapThrottle.executeOperation                           *)
(***************************************************************************)
\* a call whose timeout fired before its operation settled is rejected by
\* the timeout and never takes the result of the operation afterwards, and
\* it stays in the manager: while it has not been started it is in the
\* queue or among the resumed callers, and while it runs it counts in
\* active, which is the number of running operations, until it completes
TimedOutNotWithdrawn ==
    /\ \A c \in Callers :
          /\ raced[c] = "timeout" <=> pcAtTimeout[c] \in {"queued", "running"}
          /\ (raced[c] = "timeout" /\ pc[c] = "queued")
                => c \in SeqToSet(queue) \cup SeqToSet(woken)
    /\ active = Cardinality({c \in Callers : pc[c] = "running"})

\* C28: a call whose timeout fired before its operation settled is rejected
\* by the timeout and is not withdrawn from the manager: it stays queued or
\* keeps its active slot until it completes, its result is discarded, and
\* a call that timed out while queued is started later.  The last disjunct
\* sets aside the behaviours that use up the calls of the model, so that a
\* call this formula finds never started waits while execute can still be
\* called.
C28_TimeoutWithoutCancellation ==
    /\ []TimedOutNotWithdrawn
    /\ \A c \in Callers :
          (raced[c] = "timeout" /\ pc[c] = "queued")
              ~> (pc[c] \in {"running", "settled"} \/ nCalls = MaxCalls)

(***************************************************************************)
(* Properties of useMapPersistence                                         *)
(***************************************************************************)
\* a failure of setItem is reported to onStateError, once, by the firing
\* that met it, and the item stored is the text of a state or none
FailuresReported ==
    /\ Len(reported) <= nTicks + nPersist
    /\ (lastTick.attempted /\ lastTick.failed) => reported # <<>>
    /\ localStorage \in StoredItems \cup {StringifyState(st) : st \in MapStates}

\* C29: a firing of the interval whose setItem throws reports the failure to
\* onStateError and leaves the interval armed, and the firing that follows
\* one that failed to store a state calls setItem again for this state when
\* getState still returns it.
C29_FailedSaveRetried ==
    /\ (lastTick.attempted /\ lastTick.failed) => reported # <<>>
    /\ lastTick.retry => lastTick.attempted

(***************************************************************************)
(* Properties of WorkerPool                                                *)
(***************************************************************************)
\* C30: a message of worker w changes the promise of a task only when w has
\* a task and the message carries the id of that task, and then it resolves
\* the promise of that task, which was recorded as w's, and no other; a message
\* with another taskId, or for a worker that has no task, leaves every
\* promise as it was.
C30_TaskIdentity ==
    lastEvent.op = "message" =>
        LET t == lastEvent.had
            changed == {u \in Tasks : promises[u] # lastEvent.before[u]}
        IN  /\ (t = 0 \/ lastEvent.taskId # TaskId(t)) => changed = {}
            /\ \A u \in changed :
                  /\ u = t
                  /\ lastEvent.taskId = TaskId(u)
                  /\ assignedTo[u] = lastEvent.worker
                  /\ lastEvent.before[u].state = "pending"
                  /\ promises[u].state = "resolved"

\* the first worker resolved task 1 and was given task 3 from the queue; a
\* second message of this worker with the id of task 1 resolved nothing
C30_Witness ==
    /\ lastEvent.op = "message"
    /\ lastEvent.worker = 0
    /\ lastEvent.taskId = TaskId(1)
    /\ lastEvent.had = 3
    /\ promises[1].state = "resolved"
    /\ promises[3].state = "pending"
    /\ assignedTo[1] = 0

(***************************************************************************)
(* Further properties of ThrottleManager                                   *)
(***************************************************************************)
\* C32: in every state, dispose called amid running operations included,
\* active is the number of operations that were started and have not
\* settled, and it is never negative.
C32_ActiveCountsRunning ==
    /\ active = Cardinality(Running)
    /\ active >= 0

\* C33: no call of execute starts its operation at once while a caller
\* that arrived before it is still in the queue.
C33_NoQueueJumping ==
    [][(nCalls' = nCalls + 1 /\ pc'[nCalls'] = "running") => queue = <<>>]_vars

(***************************************************************************)
(* Further properties of BatchProcessor                                    *)
(***************************************************************************)
\* C34: no call of the processor is given more than maxSize items, the call
\* that follows a flush during which items were added included.
C34_InvocationWithinMaxSize ==
    \A k \in 1..Len(invocations) : Len(invocations[k]) <= bconfig.maxSize

\* C35: under any interleaving of adds, delay-timer firings, retry delays
\* and processor completions (the processor is not disposed), a call of the
\* processor for a batch begins only when every batch the processor was
\* called for before is finished: the promises of all its items are
\* settled, its retries included.
C35_OneBatchAtATime ==
    \A k, j \in 1..Len(invocations) :
        (nBatchDisposed = 0 /\ k < j /\ invocations[k] # invocations[j])
            => /\ outcomes[k].state # "pending"
               /\ \A n \in 1..Len(invocations[k]) :
                     status[invocations[k][n]] \in {"resolved", "rejected"}

\* a batch was retried while two items were added, and the call for these
\* items has begun
C35_Witness ==
    /\ nBatchDisposed = 0
    /\ Len(invocations) = 3
    /\ invocations[1] = invocations[2]
    /\ Len(invocations[3]) = 2
    /\ outcomes[3].state = "pending"
    /\ outcomes[1].state = "failed"

(***************************************************************************)
(* Further properties of CacheService                                      *)
(***************************************************************************)
\* C36: when a call of set has returned, the cache holds at most maxSize
\* entries.
C36_SizeWithinMaxSize ==
    lastOp.op = "set" => Len(cache) <= cacheConfig.maxSize

(***************************************************************************)
(* Further properties of useMapHistory                                     *)
(***************************************************************************)
\* the number of times an operation occurs in a stack
Occurrences(stack, operation) ==
    Cardinality({k \in 1..Len(stack) : stack[k] = operation})

\* C37: undo and redo conserve operations: a call of undo or redo, also one
\* made before the hook has rendered again after the call before it, leaves
\* every operation as many times across the undo and the redo stack as it
\* was before the call, and no operation is ever on the stacks twice.
C37_UndoRedoConserve ==
    \A operation \in 1..MaxHistoryCalls :
        /\ Occurrences(undoStack \o redoStack, operation) <= 1
        /\ lastCall.fn \in {"undo", "redo"}
            => Occurrences(undoStack \o redoStack, operation)
                 = Occurrences(lastCall.undoBefore \o lastCall.redoBefore,
                               operation)

(***************************************************************************)
(* Further properties of WorkerPool                                        *)
(***************************************************************************)
\* every task was posted to a worker that had no recorded active task at
\* that moment, the tasks were posted in the order of their execute calls,
\* no task was posted twice, and no task waiting in the queue was posted
PostedToFreeInOrder ==
    /\ \A k \in 1..Len(posted) : posted[k].had = 0
    /\ \A k, j \in 1..Len(posted) : k < j => posted[k].task < posted[j].task
    /\ \A k \in 1..Len(workerQueue) :
          /\ \A j \in 1..Len(posted) : posted[j].task < workerQueue[k]
          /\ \A j \in 1..Len(workerQueue) :
                k < j => workerQueue[k] < workerQueue[j]

\* C39: a worker never holds more than one outstanding task: every task
\* was posted to a worker that had no recorded active task at that moment,
\* the tasks were posted in the order of their execute calls, no task was
\* posted twice, and until terminate every executed task is either waiting
\* in the queue or was posted once.
C39_OneTaskPerWorker ==
    /\ PostedToFreeInOrder
    /\ ~terminated =>
          \A t \in 1..nTasks :
              \/ \E k \in 1..Len(workerQueue) : workerQueue[k] = t
              \/ \E k \in 1..Len(posted) : posted[k].task = t

(***************************************************************************)
(* Properties of SpatialService                                            *)
(***************************************************************************)
\* SpatialService alone
SpatialInit == GInit /\ TUnused /\ BUnused /\ CUnused /\ KUnused /\ HUnused
    /\ PUnused
    /\ EUnused
    /\ LUnused
    /\ OUnused
    /\ SUnused
    /\ WUnused
    /\ MUnused
    /\ UUnused

SpatialSpec == SpatialInit /\ [][SpatialNext]_vars

\* C31: no SpatialService method throws; calculateDistance returns 0 for
\* fewer than 2 features or when the library throws, calculateArea returns
\* 0 for no features or when the library throws, getBoundingBox returns
\* null in these cases, and createBuffer, simplifyGeometry and getCentroid
\* return the feature object they were given when the library fails.
C31_SafeDefaults ==
    spatialCall.fn # "none" =>
        /\ ~spatialCall.returned.threw
        /\ (spatialCall.fn = "calculateDistance"
              /\ (Len(spatialCall.features) < 2 \/ spatialCall.turf = "throws"))
            => spatialCall.returned.value = 0
        /\ (spatialCall.fn = "calculateArea"
              /\ (Len(spatialCall.features) = 0 \/ spatialCall.turf = "throws"))
            => spatialCall.returned.value = 0
        /\ (spatialCall.fn = "getBoundingBox"
              /\ (Len(spatialCall.features) = 0 \/ spatialCall.turf = "throws"))
            => spatialCall.returned.value = "null"
        /\ (spatialCall.fn \in {"createBuffer", "simplifyGeometry", "getCentroid"}
              /\ spatialCall.turf # "returns")
            => spatialCall.returned.value = spatialCall.feature

\* turf.buffer returned undefined, and createBuffer returned the feature
\* object it was given
C31_Witness ==
    /\ spatialCall.fn = "createBuffer"
    /\ spatialCall.turf = "undefined"
    /\ ~spatialCall.returned.threw
    /\ spatialCall.returned.value = spatialCall.feature
    /\ spatialCall.returned.value.ref = "b"

(***************************************************************************)
(* Properties of the map methods of MapComponent                           *)
(***************************************************************************)
\* the map methods over their LayerService and their history
MapMethodsInit == MethodsInit /\ TUnused /\ BUnused /\ CUnused /\ KUnused
    /\ PUnused
    /\ EUnused
    /\ OUnused
    /\ SUnused
    /\ WUnused
    /\ GUnused
    /\ UUnused

MapMethodsSpec == MapMethodsInit /\ [][MethodsNext]_vars

\* C38: history records only mutations that happened: a call of addFeature
\* that leaves the undo stack with a new operation got true from
\* LayerService.addFeatureToLayer, and a call of removeFeature that leaves
\* the undo stack with a new operation got true from
\* LayerService.removeFeature.
C38_HistoryOnlyOfMutations ==
    (/\ methodCall.fn \in {"addFeature", "removeFeature"}
     /\ undoStack # methodCall.undoBefore)
        => methodCall.result = "true"

(***************************************************************************)
(* Properties of ClusterService                                            *)
(***************************************************************************)
\* ClusterService alone
ClusterInit == UInit /\ TUnused /\ BUnused /\ CUnused /\ KUnused /\ HUnused
    /\ PUnused
    /\ EUnused
    /\ LUnused
    /\ OUnused
    /\ SUnused
    /\ WUnused
    /\ GUnused
    /\ MUnused

ClusterSpec == ClusterInit /\ [][ClusterNext]_vars

\* C40: loadFeatures is all-or-nothing: a call that returns leaves the
\* feature list it was given and an index made from that list, a call that
\* throws leaves the feature list and the index it found, and so the index,
\* once loaded, is always the index of the stored feature list.
C40_LoadAllOrNothing ==
    /\ clusterCall.fn = "loadFeatures" =>
          IF clusterCall.threw
          THEN /\ clusterFeatures = clusterCall.features
               /\ clusterIndex = clusterCall.index
          ELSE /\ clusterFeatures = clusterCall.given
               /\ clusterIndex.loaded
               /\ clusterIndex.from = clusterCall.given
    /\ clusterIndex.loaded => clusterIndex.from = clusterFeatures

====
